---- MODULE Spec2Model ----
(***************************************************************************)
(* Ingestion -> Detection -> Remediation pipeline of audit-sentinel.       *)
(*                                                                         *)
(* Time is counted in minutes of wall clock.  Generated uuids are modelled *)
(* by tokens that are unique by construction: an Event's internal id is    *)
(* <<cycle, position in the feed>>, an Alert's id is <<event id, rule>>,   *)
(* a RemediationLog's id is the number of the remediation attempt.         *)
(* Strings that are only compared are TLA+ strings; the strings the rules  *)
(* search in (resources) are sequences of one-character strings.           *)
(***************************************************************************)
EXTENDS Integers, Sequences, FiniteSets, TLC

(* ---------------------------- bounds ----------------------------------- *)
MaxCycles == 2
MaxClock == 1
MaxFaults == 1
MaxRemediations == 1
MaxStatusSets == 1

(* ----------------------- program constants ----------------------------- *)
FailedLoginWindowMin == 15
FailedLoginThreshold == 5

defaultPageSize == 100
maxPages == 500

Procs == {"loop", "manual"}

NilUUID == <<0, 0>>

NoTime == [valid |-> FALSE, t |-> 0]
SomeTime(t) == [valid |-> TRUE, t |-> t]

(* ------------------------- strings ------------------------------------- *)
UpperCase == <<"A","B","C","D","E","F","G","H","I","J","K","L","M",
               "N","O","P","Q","R","S","T","U","V","W","X","Y","Z">>
LowerCase == <<"a","b","c","d","e","f","g","h","i","j","k","l","m",
               "n","o","p","q","r","s","t","u","v","w","x","y","z">>

ToLowerChar(c) ==
    IF \E i \in 1..26 : UpperCase[i] = c
    THEN LowerCase[CHOOSE i \in 1..26 : UpperCase[i] = c]
    ELSE c

ToLower(s) == [i \in 1..Len(s) |-> ToLowerChar(s[i])]

StringsContains(s, sub) ==
    \E i \in 0..(Len(s) - Len(sub)) : SubSeq(s, i + 1, i + Len(sub)) = sub

\* a faulty test that compares the letters as they are written
containsCaseSensitive(s, substr) == StringsContains(s, substr)

contains(s, substr) == StringsContains(ToLower(s), ToLower(substr))

S_iam == <<"i","a","m">>
S_secrets == <<"s","e","c","r","e","t","s">>
S_kms == <<"k","m","s">>
S_secret == <<"s","e","c","r","e","t">>
S_secrets_db_password ==
    <<"s","e","c","r","e","t","s","/","d","b","-","p","a","s","s","w","o","r","d">>
S_secrets_database_password ==
    <<"s","e","c","r","e","t","s","/","d","a","t","a","b","a","s","e","-",
      "p","a","s","s","w","o","r","d">>
S_KMS_keyring == <<"K","M","S","/","k","e","y","r","i","n","g">>
S_bucket == <<"b","u","c","k","e","t">>
S_empty == <<>>

sensitiveResources == <<S_iam, S_secrets, S_kms, S_secret>>

(* ------------------------ source adapter ------------------------------- *)
MockID(base, n) == <<"evt_mock", base, n>>
ApiID(n) == <<"evt", 0, n>>

MockFailed(t, n, off, ip, source) ==
    [ID |-> MockID(t, n), Type |-> "auth.failed", Actor |-> "user@example.com",
     Resource |-> S_iam, IP |-> ip, Timestamp |-> t - off, Source |-> source,
     Raw |-> [reason |-> "invalid_credentials"]]

mockAll(t, source) ==
    << MockFailed(t, 1, 10, "203.0.113.1", source),
       MockFailed(t, 2, 8, "203.0.113.1", source),
       MockFailed(t, 3, 5, "203.0.113.2", source),
       MockFailed(t, 6, 4, "203.0.113.1", source),
       MockFailed(t, 7, 2, "203.0.113.3", source),
       [ID |-> MockID(t, 4), Type |-> "apiKey.create", Actor |-> "admin@example.com",
        Resource |-> S_iam, IP |-> "198.51.100.1", Timestamp |-> t - 3,
        Source |-> source,
        Raw |-> [key_id |-> "key_abc123", key_name |-> "Production API Key"]],
       [ID |-> MockID(t, 5), Type |-> "forbidden", Actor |-> "attacker@example.com",
        Resource |-> S_secrets, IP |-> "192.0.2.1", Timestamp |-> t - 1,
        Source |-> source,
        Raw |-> [resource |-> S_secrets_database_password, action |-> "read"]] >>

\* a faulty filter that keeps an event stamped exactly at since
NotBefore(evt, since) == (~since.valid) \/ evt.Timestamp >= since.t

After(evt, since) == (~since.valid) \/ evt.Timestamp > since.t

mockEvents(since, source, t) ==
    SelectSeq(mockAll(t, source), LAMBDA evt : After(evt, since))

(* What the provider serves on each endpoint, time-ascending; the login      *)
(* failure evt 5 is reported by both endpoints under the same id.           *)
ProviderAudit ==
    << [ID |-> ApiID(1), Type |-> "forbidden", Actor |-> "attacker@example.com",
        Resource |-> S_secrets_db_password, IP |-> "192.0.2.1", Timestamp |-> -3,
        Source |-> "", Raw |-> [action |-> "read"]],
       [ID |-> ApiID(2), Type |-> "apiKey.create", Actor |-> "admin@example.com",
        Resource |-> S_iam, IP |-> "198.51.100.1", Timestamp |-> -2,
        Source |-> "", Raw |-> [key_id |-> "key_abc123", key_name |-> "k"]],
       [ID |-> ApiID(3), Type |-> "forbidden", Actor |-> "",
        Resource |-> S_bucket, IP |-> "192.0.2.1", Timestamp |-> -1,
        Source |-> "", Raw |-> [resource |-> S_KMS_keyring]],
       [ID |-> ApiID(5), Type |-> "auth.failed", Actor |-> "user@example.com",
        Resource |-> S_empty, IP |-> "203.0.113.1", Timestamp |-> -1,
        Source |-> "", Raw |-> [reason |-> "invalid_credentials"]] >>

ProviderAuth ==
    << [ID |-> ApiID(4), Type |-> "auth.failed", Actor |-> "",
        Resource |-> S_empty, IP |-> "203.0.113.9", Timestamp |-> -2,
        Source |-> "", Raw |-> [reason |-> "invalid_credentials"]],
       [ID |-> ApiID(5), Type |-> "auth.failed", Actor |-> "user@example.com",
        Resource |-> S_empty, IP |-> "203.0.113.1", Timestamp |-> -1,
        Source |-> "", Raw |-> [reason |-> "invalid_credentials"]] >>

\* events a provider may serve: any type, resource and payload, and a
\* timestamp the provider assigned, recent or older than the rule's window
S_Secret_store == <<"S","e","c","r","e","t","-","s","t","o","r","e">>

FeedResources == {S_empty, S_bucket, S_iam, S_KMS_keyring}

FeedPayloads ==
    {[action |-> "read"], [resource |-> S_bucket], [resource |-> S_Secret_store]}

FeedTimestamps == {-20, -1}

FeedEvents ==
    {[ID |-> ApiID(6), Type |-> type, Actor |-> "user@example.com",
      Resource |-> resource, IP |-> "203.0.113.1", Timestamp |-> ts,
      Source |-> "", Raw |-> raw] :
        type \in {"forbidden", "auth.failed"}, resource \in FeedResources,
        raw \in FeedPayloads, ts \in FeedTimestamps}

\* One page of a provider response: the HTTP status (0 when the request got
\* no response), whether the body parses, the records that carry an id
\* (items) and the number of further records without a recognized id.
Page(status, body, items, noID) ==
    [status |-> status, body |-> body, items |-> items, noID |-> noID]

EmptyPage == Page(200, "json", <<>>, 0)

\* what an endpoint answers: its first pages, and the page it serves for every
\* later page number
Pager(pages, rest) == [pages |-> pages, rest |-> rest]

PageOf(pager, page) ==
    IF page <= Len(pager.pages) THEN pager.pages[page] ELSE pager.rest

\* len(list): the records of the page as the provider sent them
RawCount(resp) == Len(resp.items) + resp.noID

\* httpClient.Do failed, 401 or 403, any status >= 300, or a body without a list
PageFails(resp) ==
    \/ resp.status = 0
    \/ resp.status \in {401, 403}
    \/ resp.status >= 300
    \/ resp.body # "json"

\* a faulty end test that counts the records left after the malformed are dropped
LastPageByMapped(resp) == Len(resp.items) < defaultPageSize

LastPage(resp) == RawCount(resp) < defaultPageSize

\* a faulty iteration that returns what it has when the page fails
fetchPagePartial(st, since, pager, source, page) ==
    LET resp == PageOf(pager, page)
        kept == SelectSeq(resp.items, LAMBDA evt : After(evt, since))
        all == st.events \o [i \in 1..Len(kept) |-> [kept[i] EXCEPT !.Source = source]]
    IN  IF PageFails(resp)
        THEN [err |-> TRUE, events |-> st.events,
              requested |-> Append(st.requested, page), done |-> TRUE]
        ELSE [err |-> FALSE, events |-> all,
              requested |-> Append(st.requested, page), done |-> LastPage(resp)]

\* one iteration of the loop of fetchEvents: the page is requested; a failure
\* returns the error and nil; else the records without id are dropped by
\* mapToAuditEvent, the others filtered by since, tagged with the source and
\* appended; done is the break after a page that is not full
fetchPage(st, since, pager, source, page) ==
    LET resp == PageOf(pager, page)
        kept == SelectSeq(resp.items, LAMBDA evt : After(evt, since))
        all == st.events \o [i \in 1..Len(kept) |-> [kept[i] EXCEPT !.Source = source]]
    IN  IF PageFails(resp)
        THEN [err |-> TRUE, events |-> <<>>,
              requested |-> Append(st.requested, page), done |-> TRUE]
        ELSE [err |-> FALSE, events |-> all,
              requested |-> Append(st.requested, page), done |-> LastPage(resp)]

\* the iterations for pages lo..hi one after the other, none once the loop is
\* left; the range is halved so that the evaluation stays shallow
RECURSIVE fetchPages(_, _, _, _, _, _)
fetchPages(st, since, pager, source, lo, hi) ==
    IF st.done \/ lo > hi THEN st
    ELSE IF lo = hi THEN fetchPage(st, since, pager, source, lo)
    ELSE LET mid == (lo + hi) \div 2
         IN  fetchPages(fetchPages(st, since, pager, source, lo, mid),
                        since, pager, source, mid + 1, hi)

\* fetchEvents: for page := 1; page <= maxPages
fetchLoop(since, pager, source) ==
    LET st == fetchPages([err |-> FALSE, events |-> <<>>, requested |-> <<>>,
                          done |-> FALSE], since, pager, source, 1, maxPages)
    IN  [err |-> st.err, events |-> st.events, requested |-> st.requested]

\* a provider that answers with one short page holding the list
OnePage(list) == Pager(<<Page(200, "json", list, 0)>>, EmptyPage)

fetchEvents(since, list, source) ==
    fetchLoop(since, OnePage(list), source).events

FetchAuditEvents(key, served, since, t) ==
    IF key = "" THEN mockEvents(since, "audit", t)
    ELSE fetchEvents(since, served.audit, "audit")

FetchAuthenticationEvents(key, served, since, t) ==
    IF key = "" THEN mockEvents(since, "auth", t)
    ELSE fetchEvents(since, served.auth, "authentication")

(* --------------------------- state ------------------------------------- *)
VARIABLES
    now,        \* wall clock, minutes
    apiKey,     \* config.Scaleway.APIKey: "" selects the synthetic source
    provider,   \* the events the provider serves on its two endpoints
    overlap,    \* whether Ingest calls may overlap (manual trigger during a loop cycle)
    faultScope, \* the calls whose failures are explored: "ingest" or "remediation"
    events,     \* table events
    alerts,     \* table alerts
    logs,       \* table remediation_logs
    ing,        \* per Ingest call path: position in Ingest and its locals
    cycles,     \* number of Ingest calls started
    faults,     \* number of storage / fetch failures that have occurred
    processed,  \* history: the ProcessEvent calls made by Ingest
    skipped,    \* history: provider ids Ingest skipped because EventExists was true
    noops,      \* history: internal ids whose StoreEvent hit ON CONFLICT DO NOTHING
    rem,        \* the remediation call in progress
    attempts,   \* number of remediation operations started
    remDone,    \* history: the remediation operations that have returned
    locked,     \* provider control plane: locked users
    revoked,    \* provider control plane: revoked API keys
    statusSets, \* number of direct status updates made
    autoMoves,  \* history: status changes made by remediation completion
    statusReq,  \* history: the last status-update request and whether its store call worked
    refused,    \* history: the answer to the last remediation request refused with 4xx,
                \* kept where the failures of remediation requests are explored
    fetched,    \* history: the last two fetches made on the client directly
    start,      \* Ingestor.Start: its position, return value, and counts of what it did
    ctxErr,     \* ctx.Err() of Start's context: "" until the context is cancelled
    ticker      \* ticks waiting on ticker.C (the channel holds one)

\* the poll loop
loopVars == <<start, ctxErr, ticker>>

\* what no request handler changes: the configuration, the history of the
\* fetches made on the client directly, and the poll loop around Ingest
cfgVars == <<apiKey, provider, overlap, faultScope, fetched, loopVars, statusReq, refused>>
ingVars == <<ing, cycles, processed, skipped, noops>>
remVars == <<rem, attempts, remDone, locked, revoked, autoMoves>>

vars == <<now, cfgVars, events, alerts, logs, ingVars, faults, remVars, statusSets>>

NoEvent ==
    [ID |-> NilUUID, EventID |-> <<"", 0, 0>>, Raw |-> [none |-> ""], EventType |-> "",
     Actor |-> "", Resource |-> S_empty, IP |-> "", Timestamp |-> 0]

IdleIngest(r) ==
    [pc |-> "idle", since |-> NoTime, audit |-> <<>>, feed |-> <<>>, idx |-> 0,
     ev |-> NoEvent, cyc |-> 0, ret |-> r, log |-> <<>>]

NoID == <<"", 0, 0>>

\* history kept with a call: one entry per call Ingest makes, in the order made
\* (idx is the position in the feed, 0 before the loop)
Call(op, idx, id, ok) == [op |-> op, idx |-> idx, id |-> id, ok |-> ok]

\* Ingest returns r: its locals are gone; its number, what it fetched and the
\* calls it made are kept as history
Return(l, r) == [IdleIngest(r) EXCEPT !.cyc = l.cyc, !.feed = l.feed, !.log = l.log]

Logged(l, entries) == [l EXCEPT !.log = @ \o entries]

(* --------------------------- event store ------------------------------- *)
\* a faulty existence check that never finds the event
EventExistsNever(evs, eventID) == FALSE

EventExists(evs, eventID) == Cardinality({e \in evs : e.EventID = eventID}) > 0

\* a faulty insert without the ON CONFLICT clause
StoreEventAlways(evs, event) == evs \cup {event}

\* a faulty insert that overwrites the row of the same provider id
StoreEventUpsert(evs, event) == {e \in evs : e.EventID # event.EventID} \cup {event}

\* INSERT ... ON CONFLICT (event_id) DO NOTHING
StoreEvent(evs, event) ==
    IF \E e \in evs : e.EventID = event.EventID THEN evs ELSE evs \cup {event}

MaxOf(S) == CHOOSE m \in S : \A x \in S : x <= m

MinOf(S) == CHOOSE m \in S : \A x \in S : m <= x

\* a faulty read that returns the oldest timestamp
GetFirstEventTimestamp(evs) ==
    IF evs = {} THEN NoTime ELSE SomeTime(MinOf({e.Timestamp : e \in evs}))

GetLastEventTimestamp(evs) ==
    IF evs = {} THEN NoTime ELSE SomeTime(MaxOf({e.Timestamp : e \in evs}))

RECURSIVE OrderByTimestamp(_)
OrderByTimestamp(S) ==
    IF S = {} THEN <<>>
    ELSE LET m == CHOOSE e \in S : \A f \in S : e.Timestamp <= f.Timestamp
         IN  <<m>> \o OrderByTimestamp(S \ {m})

(* --------------------------- detection --------------------------------- *)
\* the rules that are defined but not registered
ExtensionRules ==
    {"unusual_ip_region", "impossible_travel", "iam_policy_change",
     "high_privilege_unknown_ip"}

\* a registry that also holds the rules that are only defined
rulesWithExtensions ==
    <<"failed_login_spike", "forbidden_sensitive_resource", "api_key_creation",
      "unusual_ip_region", "impossible_travel", "iam_policy_change",
      "high_privilege_unknown_ip">>

rules == <<"failed_login_spike", "forbidden_sensitive_resource", "api_key_creation">>

RuleNames == {rules[i] : i \in 1..Len(rules)}

AlertID(event, rule) == <<event.ID, rule>>

\* array_agg(...)::text scanned into a sql.NullString: NULL when no row matched,
\* else the text of the array, kept here as its parts
ArrayAgg(items) ==
    IF Len(items) = 0 THEN [Valid |-> FALSE, parts |-> <<>>]
    ELSE [Valid |-> TRUE, parts |-> items]

\* every part is the text of a uuid, so uuid.Parse succeeds on each
parseUUIDArray(str) == IF ~str.Valid THEN <<>> ELSE str.parts

parseStringArray(str) ==
    IF ~str.Valid THEN <<>> ELSE SelectSeq(str.parts, LAMBDA x : x # "")

\* rows of the rule's query: the actor's auth.failed events newer than NOW() - window
FailedLoginRows(event, evs, t) ==
    {e \in evs : /\ e.Actor = event.Actor
                 /\ e.EventType = "auth.failed"
                 /\ e.Timestamp > t - FailedLoginWindowMin}

\* a rule that fires only on the event that crosses the threshold
ThresholdCrossed(failedCount, threshold) == failedCount = threshold

\* a faulty threshold test that needs one event more
ThresholdExceeded(failedCount, threshold) == failedCount > threshold

ThresholdReached(failedCount, threshold) == failedCount >= threshold

FailedLoginEvaluate(event, evs, t) ==
    IF event.EventType # "auth.failed" THEN <<>>
    ELSE IF event.Actor = "" THEN <<>>
    ELSE LET rows == OrderByTimestamp(FailedLoginRows(event, evs, t))
             failedCount == Len(rows)
             ids == parseUUIDArray(ArrayAgg([i \in 1..Len(rows) |-> rows[i].ID]))
             ips == parseStringArray(ArrayAgg([i \in 1..Len(rows) |-> rows[i].IP]))
         IN  IF ThresholdReached(failedCount, FailedLoginThreshold)
             THEN << [ID |-> AlertID(event, "failed_login_spike"),
                      EventRefs |-> IF Len(ids) = 0 THEN <<event.ID>> ELSE ids,
                      AlertType |-> "failed_login_spike",
                      Severity |-> "HIGH",
                      UserID |-> event.Actor,
                      Status |-> "OPEN",
                      Evidence |-> [failed_attempts |-> failedCount,
                                    window_minutes |-> FailedLoginWindowMin,
                                    threshold |-> FailedLoginThreshold,
                                    ip_addresses |-> IF Len(ips) = 0 THEN <<event.IP>> ELSE ips,
                                    first_attempt |-> event.Timestamp]] >>
             ELSE <<>>

RawResource(event) ==
    IF "resource" \in DOMAIN event.Raw THEN event.Raw.resource ELSE S_empty

IsSensitive(event, sensitive) ==
    \/ event.Resource # S_empty /\ contains(event.Resource, sensitive)
    \/ "resource" \in DOMAIN event.Raw /\ contains(event.Raw.resource, sensitive)

\* a faulty type test that lets every event type through
AnyTypeApplies(event) == TRUE

ForbiddenApplies(event) == event.EventType = "forbidden"

ForbiddenResourceEvaluate(event) ==
    IF ~ForbiddenApplies(event) THEN <<>>
    ELSE LET hits == {i \in 1..Len(sensitiveResources) :
                          IsSensitive(event, sensitiveResources[i])}
         IN  IF hits = {} THEN <<>>
             ELSE << [ID |-> AlertID(event, "forbidden_sensitive_resource"),
                      EventRefs |-> <<event.ID>>,
                      AlertType |-> "forbidden_sensitive_resource",
                      Severity |-> "CRITICAL",
                      UserID |-> event.Actor,
                      Status |-> "OPEN",
                      Evidence |-> [resource_type |-> sensitiveResources[MinOf(hits)],
                                    resource |-> event.Resource,
                                    ip_address |-> event.IP,
                                    timestamp |-> event.Timestamp,
                                    raw_event |-> event.Raw]] >>

APIKeyCreationEvaluate(event) ==
    IF event.EventType # "apiKey.create" THEN <<>>
    ELSE << [ID |-> AlertID(event, "api_key_creation"),
             EventRefs |-> <<event.ID>>,
             AlertType |-> "api_key_creation",
             Severity |-> "HIGH",
             UserID |-> event.Actor,
             Status |-> "OPEN",
             Evidence |-> [key_id |-> IF "key_id" \in DOMAIN event.Raw
                                      THEN event.Raw.key_id ELSE "",
                           key_name |-> IF "key_name" \in DOMAIN event.Raw
                                        THEN event.Raw.key_name ELSE "",
                           ip_address |-> event.IP,
                           timestamp |-> event.Timestamp,
                           raw_event |-> event.Raw]] >>

Evaluate(rule, event, evs, t) ==
    IF rule = "failed_login_spike" THEN FailedLoginEvaluate(event, evs, t)
    ELSE IF rule = "forbidden_sensitive_resource" THEN ForbiddenResourceEvaluate(event)
    ELSE IF rule = "api_key_creation" THEN APIKeyCreationEvaluate(event)
    ELSE <<>>

\* the failed-login rule is the only one that queries the database
QueriesStore(rule, event) ==
    rule = "failed_login_spike" /\ event.EventType = "auth.failed" /\ event.Actor # ""

Range(s) == {s[i] : i \in 1..Len(s)}

\* the alerts the rules return for one ProcessEvent call; a rule whose query
\* failed (queryFails) returns an error and contributes nothing
Returned(event, evs, t, queryFails) ==
    UNION { IF queryFails /\ QueriesStore(rule, event) THEN {}
            ELSE Range(Evaluate(rule, event, evs, t)) : rule \in RuleNames }

IsActive(rule) == TRUE

\* a loop that returns at the first rule error
ReturnFromRules(i) == Len(rules) + 1

\* Engine.ProcessEvent, lines 62-65: a rule error is skipped with continue
ContinueRules(i) == i + 1

\* an insert that keeps one alert per type and user
StoreAlertOncePerUser(als, alert) ==
    IF \E b \in als : b.AlertType = alert.AlertType /\ b.UserID = alert.UserID
    THEN als ELSE als \cup {alert}

\* INSERT INTO alerts; an empty status is replaced by OPEN
StoreAlert(als, alert) ==
    als \cup {IF alert.Status = "" THEN [alert EXCEPT !.Status = "OPEN"] ELSE alert}

(* --------------------------- ingestion --------------------------------- *)
Fault(ok) == IF ok THEN 0 ELSE 1

MayFail(ok, scope) == ok \/ (faultScope = scope /\ faults < MaxFaults)

\* the context Ingest call p passes to every call it makes is done: the loop's
\* calls carry Start's context (a manual trigger carries its request's)
CtxDone(p) == p = "loop" /\ ctxErr # ""

\* a call made with a done context (database/sql ...Context, http request with
\* context) returns the context's error; any other call may fail on its own
Outcome(ok, done, scope) == IF done THEN ~ok ELSE MayFail(ok, scope)

\* failures caused by the context are not counted among the injected ones
Charged(ok, done) == IF done THEN 0 ELSE Fault(ok)

\* no Ingest call and no remediation request is in progress
Quiescent == rem.pc = "idle" /\ \A q \in Procs : ing[q].pc = "idle"

\* Ingest, lines 85-93: a call starts by reading the watermark; a failed read
\* leaves it nil
StartIngest(p) ==
    /\ ing[p].pc = "idle"
    /\ cycles < MaxCycles
    /\ overlap \/ Quiescent
    /\ \E ok \in BOOLEAN :
        /\ Outcome(ok, CtxDone(p), "ingest")
        /\ faults' = faults + Charged(ok, CtxDone(p))
        /\ ing' = [ing EXCEPT ![p] =
                      [IdleIngest("none") EXCEPT
                          !.pc = "fetchAudit",
                          !.since = IF ok THEN GetLastEventTimestamp(events) ELSE NoTime,
                          !.cyc = cycles + 1,
                          !.log = <<Call("GetLastEventTimestamp", 0, NoID, ok)>>]]
    /\ cycles' = cycles + 1
    /\ UNCHANGED <<now, cfgVars, events, alerts, logs, processed, skipped, noops,
                   remVars, statusSets>>

\* Ingest, lines 95-99; the synthetic source never fails
FetchAudit(p) ==
    /\ ing[p].pc = "fetchAudit"
    /\ \E ok \in BOOLEAN :
        /\ Outcome(ok, CtxDone(p) /\ apiKey # "", "ingest")
        /\ ok \/ apiKey # ""
        /\ faults' = faults + Charged(ok, CtxDone(p))
        /\ ing' = [ing EXCEPT ![p] =
                      Logged(IF ok
                             THEN [@ EXCEPT !.pc = "fetchAuth",
                                            !.audit = FetchAuditEvents(apiKey, provider,
                                                                       ing[p].since, now)]
                             ELSE Return(@, "error"),
                             <<Call("FetchAuditEvents", 0, NoID, ok)>>)]
    /\ UNCHANGED <<now, cfgVars, events, alerts, logs, cycles, processed,
                   skipped, noops, remVars, statusSets>>

\* a feed with the authentication events put first
AuthEventsFirst(auditEvents, authEvents) == authEvents \o auditEvents

\* Ingest, lines 109-111: the audit events, then the authentication events
AllEvents(auditEvents, authEvents) == auditEvents \o authEvents

\* a cycle that goes on with the audit events when the second fetch fails
FetchAuthLenient(p) ==
    /\ ing[p].pc = "fetchAuth"
    /\ \E ok \in BOOLEAN :
        /\ Outcome(ok, CtxDone(p) /\ apiKey # "", "ingest")
        /\ ok \/ apiKey # ""
        /\ faults' = faults + Charged(ok, CtxDone(p))
        /\ LET all == ing[p].audit \o
                      (IF ok THEN FetchAuthenticationEvents(apiKey, provider, ing[p].since, now)
                       ELSE <<>>)
           IN  ing' = [ing EXCEPT ![p] =
                          Logged(IF Len(all) = 0 THEN Return(@, IF ok THEN "ok" ELSE "error")
                                 ELSE [@ EXCEPT !.pc = "check", !.audit = <<>>,
                                                !.feed = all, !.idx = 1],
                                 <<Call("FetchAuthenticationEvents", 0, NoID, ok)>>)]
    /\ UNCHANGED <<now, cfgVars, events, alerts, logs, cycles, processed,
                   skipped, noops, remVars, statusSets>>

\* Ingest, lines 101-115
FetchAuth(p) ==
    /\ ing[p].pc = "fetchAuth"
    /\ \E ok \in BOOLEAN :
        /\ Outcome(ok, CtxDone(p) /\ apiKey # "", "ingest")
        /\ ok \/ apiKey # ""
        /\ faults' = faults + Charged(ok, CtxDone(p))
        /\ LET all == AllEvents(ing[p].audit,
                                FetchAuthenticationEvents(apiKey, provider,
                                                          ing[p].since, now))
           IN  ing' = [ing EXCEPT ![p] =
                          Logged(IF ~ok THEN Return(@, "error")
                                 ELSE IF Len(all) = 0 THEN Return(@, "ok")
                                 ELSE [@ EXCEPT !.pc = "check", !.audit = <<>>,
                                                !.feed = all, !.idx = 1],
                                 <<Call("FetchAuthenticationEvents", 0, NoID, ok)>>)]
    /\ UNCHANGED <<now, cfgVars, events, alerts, logs, cycles, processed,
                   skipped, noops, remVars, statusSets>>

\* a loop that gives up with an error once any call of the cycle has failed
ContinueStrict(p) ==
    IF ing[p].idx < Len(ing[p].feed)
    THEN [ing[p] EXCEPT !.pc = "check", !.idx = @ + 1, !.ev = NoEvent]
    ELSE Return(ing[p], IF \E i \in 1..Len(ing[p].log) : ~ing[p].log[i].ok
                        THEN "error" ELSE "ok")

\* the loop's continue / end of body: next event, or return nil after the last
Continue(p) ==
    IF ing[p].idx < Len(ing[p].feed)
    THEN [ing[p] EXCEPT !.pc = "check", !.idx = @ + 1, !.ev = NoEvent]
    ELSE Return(ing[p], "ok")

AnnotatedRaw(scalewayEvent) ==
    IF scalewayEvent.Source # ""
    THEN [source |-> scalewayEvent.Source] @@ scalewayEvent.Raw
    ELSE scalewayEvent.Raw

\* uuid.New(): the token of the call and of the position in its feed
NewUUID(cyc, idx) == <<cyc, idx>>

NewModelEvent(id, scalewayEvent) ==
    [ID |-> id,
     EventID |-> scalewayEvent.ID,
     Raw |-> AnnotatedRaw(scalewayEvent),
     EventType |-> scalewayEvent.Type,
     Actor |-> scalewayEvent.Actor,
     Resource |-> scalewayEvent.Resource,
     IP |-> scalewayEvent.IP,
     Timestamp |-> scalewayEvent.Timestamp]

\* Ingest, lines 118-164: existence check, then the Event is built
CheckExists(p) ==
    /\ ing[p].pc = "check"
    /\ LET scalewayEvent == ing[p].feed[ing[p].idx]
       IN \E ok \in BOOLEAN :
            /\ Outcome(ok, CtxDone(p), "ingest")
            /\ faults' = faults + Charged(ok, CtxDone(p))
            /\ LET entry == <<Call("EventExists", ing[p].idx, scalewayEvent.ID, ok)>>
               IN  IF ~ok
                   THEN /\ ing' = [ing EXCEPT ![p] = Logged(Continue(p), entry)]
                        /\ UNCHANGED skipped
                   ELSE IF EventExists(events, scalewayEvent.ID)
                   THEN /\ ing' = [ing EXCEPT ![p] = Logged(Continue(p), entry)]
                        /\ skipped' = skipped \cup {scalewayEvent.ID}
                   ELSE /\ ing' = [ing EXCEPT ![p] =
                                      Logged([@ EXCEPT !.pc = "store",
                                                       !.ev = NewModelEvent(
                                                                 NewUUID(ing[p].cyc, ing[p].idx),
                                                                 scalewayEvent)],
                                             entry)]
                        /\ UNCHANGED skipped
    /\ UNCHANGED <<now, cfgVars, events, alerts, logs, cycles, processed, noops,
                   remVars, statusSets>>

\* Ingest, lines 166-170
StoreStep(p) ==
    /\ ing[p].pc = "store"
    /\ \E ok \in BOOLEAN :
        /\ Outcome(ok, CtxDone(p), "ingest")
        /\ faults' = faults + Charged(ok, CtxDone(p))
        /\ IF ok
           THEN /\ events' = StoreEvent(events, ing[p].ev)
                /\ noops' = IF ing[p].ev \in StoreEvent(events, ing[p].ev)
                            THEN noops ELSE noops \cup {ing[p].ev.ID}
                /\ ing' = [ing EXCEPT ![p] =
                              Logged([@ EXCEPT !.pc = "process"],
                                     <<Call("StoreEvent", ing[p].idx, ing[p].ev.EventID, TRUE)>>)]
           ELSE /\ ing' = [ing EXCEPT ![p] =
                              Logged(Continue(p),
                                     <<Call("StoreEvent", ing[p].idx, ing[p].ev.EventID, FALSE)>>)]
                /\ UNCHANGED <<events, noops>>
    /\ UNCHANGED <<now, cfgVars, alerts, logs, cycles, processed, skipped,
                   remVars, statusSets>>

\* Engine.ProcessEvent, lines 56-77, from rule i on: als is the alerts table so
\* far, trace the rules evaluated so far with what became of their alerts
RECURSIVE RunRules(_, _, _, _, _, _, _, _)
RunRules(i, event, evs, als, t, queryFails, insertFails, trace) ==
    IF i > Len(rules) THEN [alerts |-> als, trace |-> trace, err |-> "nil"]
    ELSE IF ~IsActive(rules[i])
    THEN RunRules(i + 1, event, evs, als, t, queryFails, insertFails, trace)
    ELSE IF queryFails /\ QueriesStore(rules[i], event)
    THEN RunRules(ContinueRules(i), event, evs, als, t, queryFails, insertFails,
                  Append(trace, [rule |-> rules[i], err |-> TRUE,
                                 stored |-> {}, failed |-> {}]))
    ELSE LET returned == Range(Evaluate(rules[i], event, evs, t))
             kept == {a \in returned : a.AlertType \notin insertFails}
         IN  RunRules(i + 1, event, evs,
                      UNION {StoreAlert(als, a) : a \in kept} \cup als,
                      t, queryFails, insertFails,
                      Append(trace, [rule |-> rules[i], err |-> FALSE,
                                     stored |-> {a.ID : a \in kept},
                                     failed |-> {a.ID : a \in returned \ kept}]))

\* Engine.ProcessEvent: every rule is evaluated, every returned alert is stored
\* on its own; a failing rule query and a failing alert insert are swallowed.
\* evs and als are the tables, t the database's NOW(); the result is the alerts
\* table and the record of the call
ProcessEvent(event, evs, als, t, queryFails, insertFails) ==
    LET returned == Returned(event, evs, t, queryFails)
        kept == {a \in returned : a.AlertType \notin insertFails}
        run == RunRules(1, event, evs, als, t, queryFails, insertFails, <<>>)
    IN  [alerts |-> run.alerts,
         call |-> [ID |-> event.ID, EventID |-> event.EventID,
                   evaluated |-> run.trace, err |-> run.err,
                   EventType |-> event.EventType, Actor |-> event.Actor,
                   Resource |-> event.Resource,
                   inWindow |-> Cardinality(FailedLoginRows(event, evs, t)),
                   queryFailed |-> queryFails,
                   returned |-> {[AlertType |-> a.AlertType, Severity |-> a.Severity,
                                  Status |-> a.Status, UserID |-> a.UserID,
                                  failed_attempts |->
                                      IF "failed_attempts" \in DOMAIN a.Evidence
                                      THEN a.Evidence.failed_attempts ELSE 0] :
                                 a \in returned},
                   stored |-> {a.ID : a \in kept}]]

\* the failures ProcessEvent can meet on this event: the rule query fails only
\* where a rule queries, an insert fails only for an alert that was returned
DetectionFaults(event, evs, t, queryFails, insertFails) ==
    /\ queryFails => \E rule \in RuleNames : QueriesStore(rule, event)
    /\ insertFails \subseteq {a.AlertType : a \in Returned(event, evs, t, queryFails)}
    /\ Fault(~queryFails) + Cardinality(insertFails) > 0 => faultScope = "ingest"
    /\ faults + Fault(~queryFails) + Cardinality(insertFails) <= MaxFaults

\* Ingest, lines 172-179
DetectStep(p) ==
    /\ ing[p].pc = "process"
    /\ \E queryFails \in BOOLEAN, insertFails \in SUBSET RuleNames :
        /\ IF CtxDone(p)
           THEN /\ queryFails = (\E rule \in RuleNames : QueriesStore(rule, ing[p].ev))
                /\ insertFails = {a.AlertType :
                                     a \in Returned(ing[p].ev, events, now, queryFails)}
                /\ faults' = faults
           ELSE /\ DetectionFaults(ing[p].ev, events, now, queryFails, insertFails)
                /\ faults' = faults + Fault(~queryFails) + Cardinality(insertFails)
        /\ LET r == ProcessEvent(ing[p].ev, events, alerts, now, queryFails, insertFails)
           IN  /\ alerts' = r.alerts
               /\ processed' = processed \cup {r.call}
        /\ ing' = [ing EXCEPT ![p] =
                      Logged(Continue(p),
                             <<Call("ProcessEvent", ing[p].idx, ing[p].ev.EventID,
                                    ~queryFails /\ insertFails = {})>>)]
    /\ UNCHANGED <<now, cfgVars, events, logs, cycles, skipped, noops,
                   remVars, statusSets>>

\* the tables Ingest writes and the history of what it did
World ==
    [events |-> events, alerts |-> alerts, processed |-> processed,
     skipped |-> skipped, noops |-> noops]

\* a loop body that passes the event to ProcessEvent although StoreEvent failed
LoopBodyProcessUnstored(w, id, scalewayEvent, t, okExists, okStore, queryFails, insertFails) ==
    LET event == NewModelEvent(id, scalewayEvent)
        toStore == okExists /\ ~EventExists(w.events, scalewayEvent.ID)
        evs == IF toStore /\ okStore THEN StoreEvent(w.events, event) ELSE w.events
        r == ProcessEvent(event, evs, w.alerts, t, queryFails, insertFails)
    IN  [events |-> evs,
         alerts |-> IF toStore THEN r.alerts ELSE w.alerts,
         processed |-> IF toStore THEN w.processed \cup {r.call} ELSE w.processed,
         skipped |-> IF okExists /\ ~toStore
                     THEN w.skipped \cup {scalewayEvent.ID} ELSE w.skipped,
         noops |-> w.noops]

\* Ingest, lines 118-179: one pass of the loop body on the tables w, with the
\* outcome of each store call given
LoopBody(w, id, scalewayEvent, t, okExists, okStore, queryFails, insertFails) ==
    LET event == NewModelEvent(id, scalewayEvent)
        toStore == okExists /\ ~EventExists(w.events, scalewayEvent.ID)
        toProcess == toStore /\ okStore
        evs == IF toProcess THEN StoreEvent(w.events, event) ELSE w.events
        r == ProcessEvent(event, evs, w.alerts, t, queryFails, insertFails)
    IN  [events |-> evs,
         alerts |-> IF toProcess THEN r.alerts ELSE w.alerts,
         processed |-> IF toProcess THEN w.processed \cup {r.call} ELSE w.processed,
         skipped |-> IF okExists /\ ~toStore
                     THEN w.skipped \cup {scalewayEvent.ID} ELSE w.skipped,
         noops |-> IF toProcess /\ event \notin evs
                   THEN w.noops \cup {event.ID} ELSE w.noops]

\* one pass of the loop body as one step, for calls that do not overlap (nothing
\* else touches the tables between its three store calls)
IngestEvent(p) ==
    /\ ing[p].pc = "check"
    /\ LET scalewayEvent == ing[p].feed[ing[p].idx]
           id == NewUUID(ing[p].cyc, ing[p].idx)
       IN \E okExists \in BOOLEAN, okStore \in BOOLEAN,
             queryFails \in BOOLEAN, insertFails \in SUBSET RuleNames :
            LET toStore == okExists /\ ~EventExists(events, scalewayEvent.ID)
                toProcess == toStore /\ okStore
                w == LoopBody(World, id, scalewayEvent, now, okExists, okStore,
                              queryFails, insertFails)
            IN  /\ Outcome(okExists, CtxDone(p), "ingest")
                /\ okStore \/ (toStore /\ faultScope = "ingest")
                /\ IF toProcess
                   THEN DetectionFaults(NewModelEvent(id, scalewayEvent), w.events, now,
                                        queryFails, insertFails)
                   ELSE ~queryFails /\ insertFails = {}
                /\ faults + Charged(okExists, CtxDone(p)) + Fault(okStore) + Fault(~queryFails)
                      + Cardinality(insertFails) <= MaxFaults
                /\ faults' = faults + Charged(okExists, CtxDone(p)) + Fault(okStore)
                                + Fault(~queryFails) + Cardinality(insertFails)
                /\ events' = w.events
                /\ alerts' = w.alerts
                /\ processed' = w.processed
                /\ skipped' = w.skipped
                /\ noops' = w.noops
                /\ ing' = [ing EXCEPT ![p] =
                      Logged(Continue(p),
                             <<Call("EventExists", ing[p].idx, scalewayEvent.ID, okExists)>>
                             \o (IF toStore
                                 THEN <<Call("StoreEvent", ing[p].idx, scalewayEvent.ID, okStore)>>
                                 ELSE <<>>)
                             \o (IF toProcess
                                 THEN <<Call("ProcessEvent", ing[p].idx, scalewayEvent.ID,
                                             ~queryFails /\ insertFails = {})>>
                                 ELSE <<>>))]
    /\ UNCHANGED <<now, cfgVars, logs, cycles, remVars, statusSets>>

\* the loop of Ingest run to its end with every store call succeeding
RECURSIVE RunLoop(_, _, _, _, _)
RunLoop(w, feed, idx, cyc, t) ==
    IF idx > Len(feed) THEN w
    ELSE RunLoop(LoopBody(w, NewUUID(cyc, idx), feed[idx], t, TRUE, TRUE, FALSE, {}),
                 feed, idx + 1, cyc, t)

\* Ingest, lines 85-183, as one step: a call that no other request overlaps,
\* whose fetches and store calls all succeed, and during which the clock does
\* not advance
Ingest(p) ==
    /\ Quiescent
    /\ cycles < MaxCycles
    /\ LET since == GetLastEventTimestamp(events)
           allEvents == AllEvents(FetchAuditEvents(apiKey, provider, since, now),
                                  FetchAuthenticationEvents(apiKey, provider, since, now))
           w == RunLoop(World, allEvents, 1, cycles + 1, now)
       IN  /\ events' = w.events
           /\ alerts' = w.alerts
           /\ processed' = w.processed
           /\ skipped' = w.skipped
           /\ noops' = w.noops
    /\ cycles' = cycles + 1
    /\ ing' = [ing EXCEPT ![p] = IdleIngest("ok")]
    /\ UNCHANGED <<now, cfgVars, logs, faults, remVars, statusSets>>

\* the clock advances between two requests
TickIdle ==
    /\ now < MaxClock
    /\ Quiescent
    /\ cycles < MaxCycles
    /\ now' = now + 1
    /\ UNCHANGED <<cfgVars, events, alerts, logs, ingVars, faults, remVars, statusSets>>

\* the clock is read by the synthetic source and by the failed-login query
\* only; it advances just before such a read, which no call can tell from
\* advancing earlier
ReadsClock(p) ==
    \/ ing[p].pc \in {"fetchAudit", "fetchAuth"} /\ apiKey = ""
    \/ ing[p].pc = "process" /\ QueriesStore("failed_login_spike", ing[p].ev)
    \/ /\ ~overlap
       /\ ing[p].pc = "check"
       /\ QueriesStore("failed_login_spike",
                       NewModelEvent(NilUUID, ing[p].feed[ing[p].idx]))

Tick ==
    /\ now < MaxClock
    /\ \E p \in Procs : ReadsClock(p)
    /\ now' = now + 1
    /\ UNCHANGED <<cfgVars, events, alerts, logs, ingVars, faults, remVars, statusSets>>

\* the since values a caller may pass: nil, or a time around the feed's events
SinceValues == {NoTime} \cup {SomeTime(t) : t \in -11..0}

\* Client.FetchAuditEvents / FetchAuthenticationEvents called with since; the
\* call and what it returned are remembered, the last two calls are kept
FetchCall(endpoint, since) ==
    /\ LET result == IF endpoint = "audit"
                     THEN FetchAuditEvents(apiKey, provider, since, now)
                     ELSE FetchAuthenticationEvents(apiKey, provider, since, now)
           call == [endpoint |-> endpoint, since |-> since, at |-> now, result |-> result]
       IN  fetched' = IF Len(fetched) = 2 THEN <<fetched[2], call>>
                      ELSE Append(fetched, call)
    /\ UNCHANGED <<now, apiKey, provider, overlap, faultScope, loopVars, statusReq,
                   refused, events,
                   alerts, logs, ingVars, faults, remVars, statusSets>>

\* the pages an endpoint may answer with: a full page of 100 records, one
\* record short of full, a short page, a page of records without id, and the
\* failures: no response, 401, 403, a redirect, a server error, a body
\* without a list
GoodPages ==
    { Page(200, "json", <<ProviderAudit[1]>>, defaultPageSize - 1),
      Page(200, "json", <<>>, defaultPageSize),
      Page(200, "json", <<ProviderAudit[2]>>, defaultPageSize - 2),
      Page(200, "json", <<ProviderAudit[3]>>, 0) }

BadPages ==
    { Page(0, "", <<>>, 0), Page(401, "json", <<>>, 0), Page(403, "json", <<>>, 0),
      Page(302, "json", <<>>, 0), Page(500, "json", <<ProviderAudit[3]>>, 0),
      Page(200, "html", <<>>, 0) }

\* endpoints: up to two first pages, then empty pages or full pages without end
Pagers ==
    { Pager(pages, rest) :
        pages \in {<<>>} \cup {<<a>> : a \in GoodPages \cup BadPages}
                        \cup {<<a, b>> : a \in GoodPages, b \in GoodPages \cup BadPages},
        rest \in {EmptyPage, Page(200, "json", <<>>, defaultPageSize)} }

PagedSince == {NoTime, SomeTime(-3), SomeTime(-2)}

\* fetchEvents called on an endpoint that answers page by page; the call, the
\* page numbers it asked for and what it returned are remembered
PagedFetch(endpoint, since) ==
    /\ apiKey # ""
    /\ LET r == fetchLoop(since, provider[endpoint],
                          IF endpoint = "audit" THEN "audit" ELSE "authentication")
       IN  fetched' = << [endpoint |-> endpoint, since |-> since, at |-> now,
                          result |-> r.events, err |-> r.err,
                          requested |-> r.requested] >>
    /\ UNCHANGED <<now, apiKey, provider, overlap, faultScope, loopVars, statusReq,
                   refused, events,
                   alerts, logs, ingVars, faults, remVars, statusSets>>

(* --------------------------- poll loop --------------------------------- *)
\* Start has not been called
NotStarted == [pc |-> "init", ret |-> "", runs |-> 0, ticks |-> 0, failed |-> 0]

\* the values ctx.Err() takes once the context is done
CtxErrors == {"context canceled", "context deadline exceeded"}

\* what a step of Start leaves alone
startFrame ==
    <<now, apiKey, provider, overlap, faultScope, fetched, statusReq, refused, events,
      alerts, logs,
      ingVars, faults, remVars, statusSets>>

\* a loop that gives up when a cycle fails
AfterCycleFatal(st, r) ==
    IF r = "error" THEN [st EXCEPT !.pc = "returned", !.ret = r, !.failed = @ + 1]
    ELSE [st EXCEPT !.pc = "select"]

\* Start, lines 68-70 and 77-79: the error of a cycle is logged, the loop goes
\* to its select
AfterCycle(st, r) ==
    [st EXCEPT !.pc = "select", !.failed = IF r = "error" THEN @ + 1 ELSE @]

\* Start, lines 63-68: the ticker is created and Ingest is called at once
StartBegins ==
    /\ start.pc = "init"
    /\ start' = [start EXCEPT !.pc = "ingest", !.runs = 1]
    /\ UNCHANGED <<startFrame, ctxErr, ticker>>

\* the Ingest call Start has made begins
LoopIngest ==
    /\ start.pc = "ingest"
    /\ cycles < start.runs
    /\ StartIngest("loop")

\* the Ingest call Start has made runs on
LoopStep ==
    /\ start.pc = "ingest"
    /\ FetchAudit("loop") \/ FetchAuth("loop") \/ IngestEvent("loop")

\* Ingest returns to Start
CycleReturns ==
    /\ start.pc = "ingest"
    /\ cycles = start.runs
    /\ ing["loop"].pc = "idle"
    /\ start' = AfterCycle(start, ing["loop"].ret)
    /\ UNCHANGED <<startFrame, ctxErr, ticker>>

\* the ticker's period elapses: a tick is put on ticker.C, dropped when one is
\* waiting; defer ticker.Stop() ends this when Start returns
TickerFires ==
    /\ start.pc \notin {"init", "returned"}
    /\ ticker = 0
    /\ ticker' = 1
    /\ UNCHANGED <<startFrame, start, ctxErr>>

\* a loop that starts a cycle on every tick, in a goroutine of its own
SelectTickSpawns ==
    /\ start.pc \in {"select", "ingest"}
    /\ ticker = 1
    /\ start.runs < MaxCycles
    /\ ticker' = 0
    /\ start' = [start EXCEPT !.pc = "ingest", !.runs = @ + 1, !.ticks = @ + 1]
    /\ UNCHANGED <<startFrame, ctxErr>>

\* Start, lines 76-77: select receives the tick and calls Ingest
SelectTick ==
    /\ start.pc = "select"
    /\ ticker = 1
    /\ start.runs < MaxCycles
    /\ ticker' = 0
    /\ start' = [start EXCEPT !.pc = "ingest", !.runs = @ + 1, !.ticks = @ + 1]
    /\ UNCHANGED <<startFrame, ctxErr>>

\* Start, lines 74-75: select finds the context done and returns its error
SelectDone ==
    /\ start.pc = "select"
    /\ ctxErr # ""
    /\ start' = [start EXCEPT !.pc = "returned", !.ret = ctxErr]
    /\ UNCHANGED <<startFrame, ctxErr, ticker>>

\* the caller cancels the context, or its deadline passes
Cancel(err) ==
    /\ start.pc # "init"
    /\ ctxErr = ""
    /\ ctxErr' = err
    /\ UNCHANGED <<startFrame, start, ticker>>

(* --------------------------- remediation ------------------------------- *)
NilAlertID == <<NilUUID, "">>

MissingAlertID == <<NilUUID, "missing">>

IdleRem ==
    [pc |-> "idle", form |-> "", action |-> "", alertID |-> NilAlertID,
     target |-> "", callOk |-> FALSE, n |-> 0]

AlertIDs(als) == {a.ID : a \in als}

GetAlert(als, id) == CHOOSE a \in als : a.ID = id

\* a faulty update that leaves the status as it is
KeepAlertStatus(als, id, status) == als

\* a faulty update that leaves a RESOLVED or FALSE_POSITIVE alert as it is
UpdateOpenAlertStatus(als, id, status) ==
    {IF a.ID = id /\ a.Status \notin {"RESOLVED", "FALSE_POSITIVE"}
     THEN [a EXCEPT !.Status = status] ELSE a : a \in als}

\* UPDATE alerts SET status = $1 WHERE id = $3
UpdateAlertStatus(als, id, status) ==
    {IF a.ID = id THEN [a EXCEPT !.Status = status] ELSE a : a \in als}

KeyIDOf(alert) ==
    IF "key_id" \in DOMAIN alert.Evidence THEN alert.Evidence.key_id ELSE ""

\* a faulty choice of subject that goes on with the alert's id when the alert
\* names no user
RemediationTargetOrAlert(alert, action) ==
    IF action \in {"lock_user", "unlock_user"}
    THEN IF alert.UserID = "" THEN "alert" ELSE alert.UserID
    ELSE IF action = "revoke_key" THEN KeyIDOf(alert)
    ELSE ""

\* remediateAlert, lines 289-315: the subject the action applies to, "" when
\* the request is rejected with 400
RemediationTarget(alert, action) ==
    IF action \in {"lock_user", "unlock_user"} THEN alert.UserID
    ELSE IF action = "revoke_key" THEN KeyIDOf(alert)
    ELSE ""

\* remediateAlert: the error text of the 4xx answer to a request, "" when the
\* request goes on to the remediation service
Refusal(als, alertID, action) ==
    IF alertID \notin AlertIDs(als) THEN "Alert not found"
    ELSE IF action \in {"lock_user", "unlock_user"}
    THEN IF GetAlert(als, alertID).UserID = "" THEN "Alert has no user ID" ELSE ""
    ELSE IF action = "revoke_key"
    THEN IF KeyIDOf(GetAlert(als, alertID)) = "" THEN "Alert has no key ID to revoke" ELSE ""
    ELSE "Unknown action"

\* remediateAlert, lines 257-315, up to the call of the remediation service
RemediateAlert(alertID, action) ==
    /\ Quiescent
    /\ attempts < MaxRemediations
    /\ \E ok \in BOOLEAN :
        /\ MayFail(ok, "remediation")
        /\ faults' = faults + Fault(ok)
        /\ IF ok /\ alertID \in AlertIDs(alerts)
              /\ RemediationTarget(GetAlert(alerts, alertID), action) # ""
           THEN /\ rem' = [IdleRem EXCEPT !.pc = "mutate", !.form = "alert",
                                          !.action = action, !.alertID = alertID,
                                          !.target = RemediationTarget(
                                                        GetAlert(alerts, alertID), action),
                                          !.n = attempts + 1]
                /\ attempts' = attempts + 1
                /\ refused' = refused
           ELSE /\ UNCHANGED <<rem, attempts>>
                /\ refused' = IF ok /\ faultScope = "remediation"
                               THEN Refusal(alerts, alertID, action) ELSE refused
    /\ UNCHANGED <<now, apiKey, provider, overlap, faultScope, fetched, loopVars,
                   statusReq, events, alerts, logs, ingVars, remDone, locked,
                   revoked, autoMoves, statusSets>>

\* Service.LockUser / UnlockUser / RevokeAPIKey called without an alert id
PlainRemediation(action, target) ==
    /\ Quiescent
    /\ attempts < MaxRemediations
    /\ rem' = [IdleRem EXCEPT !.pc = "mutate", !.form = "plain", !.action = action,
                              !.target = target, !.n = attempts + 1]
    /\ attempts' = attempts + 1
    /\ UNCHANGED <<now, cfgVars, events, alerts, logs, ingVars, faults, remDone,
                   locked, revoked, autoMoves, statusSets>>

\* the mutating call on the provider's control plane
RemMutate ==
    /\ rem.pc = "mutate"
    /\ \E ok \in BOOLEAN :
        /\ rem' = [rem EXCEPT !.pc = "log", !.callOk = ok]
        /\ locked' = IF ~ok THEN locked
                     ELSE IF rem.action = "lock_user" THEN locked \cup {rem.target}
                     ELSE IF rem.action = "unlock_user" THEN locked \ {rem.target}
                     ELSE locked
        /\ revoked' = IF ok /\ rem.action = "revoke_key"
                      THEN revoked \cup {rem.target} ELSE revoked
    /\ UNCHANGED <<now, cfgVars, events, alerts, logs, ingVars, faults, attempts,
                   remDone, autoMoves, statusSets>>

ResultOf(callOk) == IF callOk THEN "success" ELSE "failed: provider error"

\* remediation_logs.alert_id REFERENCES alerts(id)
ForeignKeyHolds(als, alertID) == alertID \in AlertIDs(als)

\* a faulty return that reports success whatever happened
RemReturnNil(callOk, logOk) == "ok"

\* a faulty return that drops the error of the log write
RemReturnCallOnly(callOk, logOk) == IF callOk THEN "ok" ELSE "error"

\* what the service operation returns
RemReturn(callOk, logOk) ==
    IF ~callOk THEN "error" ELSE IF logOk THEN "ok" ELSE "error"

EffectHolds(action, target, lockedUsers, revokedKeys) ==
    IF action = "lock_user" THEN target \in lockedUsers
    ELSE IF action = "unlock_user" THEN target \notin lockedUsers
    ELSE target \in revokedKeys

\* the log write and the return of the service operation; remediateAlert goes on
\* to the status update only when the operation returned no error
RemLog ==
    /\ rem.pc = "log"
    /\ \E ok \in BOOLEAN :
        /\ MayFail(ok, "remediation")
        /\ faults' = faults + Fault(ok)
        /\ LET logOk == ok /\ ForeignKeyHolds(alerts, rem.alertID)
               ret == RemReturn(rem.callOk, logOk)
           IN  /\ logs' = IF logOk
                          THEN logs \cup {[ID |-> rem.n, AlertID |-> rem.alertID,
                                           ActorUser |-> "system",
                                           ActionType |-> rem.action,
                                           Payload |-> rem.target,
                                           Result |-> ResultOf(rem.callOk)]}
                          ELSE logs
               /\ remDone' = remDone \cup
                     {[n |-> rem.n, form |-> rem.form, action |-> rem.action,
                       alertID |-> rem.alertID, callOk |-> rem.callOk,
                       logOk |-> logOk, ret |-> ret,
                       effect |-> EffectHolds(rem.action, rem.target, locked, revoked)]}
               /\ rem' = IF rem.form = "alert" /\ ret = "ok"
                         THEN [rem EXCEPT !.pc = "status"] ELSE IdleRem
    /\ UNCHANGED <<now, cfgVars, events, alerts, ingVars, attempts, locked, revoked,
                   autoMoves, statusSets>>

\* remediateAlert, lines 322-326: the alert is moved to RESOLVED; a failed
\* update is only printed
RemStatus ==
    /\ rem.pc = "status"
    /\ \E ok \in BOOLEAN :
        /\ MayFail(ok, "remediation")
        /\ faults' = faults + Fault(ok)
        /\ alerts' = IF ok THEN UpdateAlertStatus(alerts, rem.alertID, "RESOLVED")
                     ELSE alerts
        /\ autoMoves' = IF ok
                        THEN autoMoves \cup
                             {[alertID |-> rem.alertID,
                               from |-> GetAlert(alerts, rem.alertID).Status,
                               to |-> "RESOLVED"]}
                        ELSE autoMoves
    /\ rem' = IdleRem
    /\ UNCHANGED <<now, cfgVars, events, logs, ingVars, attempts, remDone, locked,
                   revoked, statusSets>>

NoRequest == [id |-> NilAlertID, status |-> "", ok |-> FALSE]

\* a faulty check that lets CLOSED through
StatusesWithClosed == {"OPEN", "INVESTIGATING", "RESOLVED", "FALSE_POSITIVE", "CLOSED"}

ValidStatuses == {"OPEN", "INVESTIGATING", "RESOLVED", "FALSE_POSITIVE"}

\* updateAlertStatus: the operator's direct status set
SetStatus(id, status) ==
    /\ Quiescent
    /\ statusSets < MaxStatusSets
    /\ statusSets' = statusSets + 1
    /\ \E ok \in BOOLEAN :
        /\ MayFail(ok, "remediation")
        /\ faults' = faults + Fault(ok)
        /\ alerts' = IF ok /\ status \in ValidStatuses
                     THEN UpdateAlertStatus(alerts, id, status) ELSE alerts
        /\ statusReq' = [id |-> id, status |-> status, ok |-> ok]
    /\ UNCHANGED <<now, apiKey, provider, overlap, faultScope, fetched, loopVars,
                   refused, events, logs, ingVars, remVars>>

(* --------------------------- specifications ---------------------------- *)
InitCommon ==
    /\ now = 0
    /\ events = {}
    /\ alerts = {}
    /\ logs = {}
    /\ ing = [p \in Procs |-> IdleIngest("none")]
    /\ cycles = 0
    /\ faults = 0
    /\ processed = {}
    /\ skipped = {}
    /\ noops = {}
    /\ rem = IdleRem
    /\ attempts = 0
    /\ remDone = {}
    /\ locked = {}
    /\ revoked = {}
    /\ statusSets = 0
    /\ autoMoves = {}
    /\ fetched = <<>>
    /\ statusReq = NoRequest
    /\ refused = ""
    /\ start = NotStarted
    /\ ctxErr = ""
    /\ ticker = 0

\* requests are served one at a time: an Ingest call, a remediation request or a
\* status update starts when no other is in progress (Ingest and remediation
\* share only the alerts table, where Ingest inserts and remediation reads by id
\* and sets the status); the source is the synthetic one or the provider
Init ==
    /\ InitCommon
    /\ apiKey \in {"", "key"}
    /\ provider = [audit |-> ProviderAudit, auth |-> ProviderAuth]
    /\ overlap = FALSE
    /\ faultScope = "remediation"

\* Ingest calls one after the other: against the provider with failing fetches
\* and failing store calls, against the synthetic source with the store working
InitIngest ==
    /\ InitCommon
    /\ apiKey \in {"", "key"}
    /\ provider = [audit |-> ProviderAudit, auth |-> ProviderAuth]
    /\ overlap = FALSE
    /\ faultScope = IF apiKey = "" THEN "none" ELSE "ingest"

\* a manual trigger may run while the loop's cycle is in progress
InitOverlap ==
    /\ InitCommon
    /\ apiKey = "key"
    /\ provider = [audit |-> SubSeq(ProviderAudit, 1, 1), auth |-> SubSeq(ProviderAuth, 2, 2)]
    /\ overlap = TRUE
    /\ faultScope = "ingest"

\* the remediation service on the alert of one API key creation, with failing
\* provider calls and failing store calls
InitService ==
    /\ InitCommon
    /\ apiKey = "key"
    /\ provider = [audit |-> SubSeq(ProviderAudit, 2, 2), auth |-> <<>>]
    /\ overlap = FALSE
    /\ faultScope = "remediation"

\* the synthetic source (no API key configured), store calls succeed
InitMock ==
    /\ InitCommon
    /\ apiKey = ""
    /\ provider = [audit |-> <<>>, auth |-> <<>>]
    /\ overlap = FALSE
    /\ faultScope = "none"

\* overlapping Ingest calls and remediation of the alerts they created, every
\* call succeeding
InitFrame ==
    /\ InitCommon
    /\ apiKey = "key"
    /\ provider = [audit |-> SubSeq(ProviderAudit, 1, 1), auth |-> SubSeq(ProviderAuth, 2, 2)]
    /\ overlap = TRUE
    /\ faultScope = "none"

\* the poll loop alone against the provider, with failing fetches and failing
\* store calls
InitStart ==
    /\ InitCommon
    /\ apiKey = "key"
    /\ provider = [audit |-> ProviderAudit, auth |-> ProviderAuth]
    /\ overlap = FALSE
    /\ faultScope = "ingest"

\* the client's fetches called directly, with any since value
InitFetch ==
    /\ InitCommon
    /\ apiKey \in {"", "key"}
    /\ provider = [audit |-> ProviderAudit, auth |-> ProviderAuth]
    /\ overlap = FALSE
    /\ faultScope = "none"

\* Ingest calls one after the other against a provider that serves one event,
\* every call succeeding
InitRules ==
    /\ InitCommon
    /\ apiKey = "key"
    /\ \E e \in FeedEvents : provider = [audit |-> <<e>>, auth |-> <<>>]
    /\ overlap = FALSE
    /\ faultScope = "none"

\* the remediation service on two alerts, one of an API key creation and one
\* of a forbidden access by an event without actor
InitRefusal ==
    /\ InitCommon
    /\ apiKey = "key"
    /\ provider = [audit |-> SubSeq(ProviderAudit, 2, 3), auth |-> <<>>]
    /\ overlap = FALSE
    /\ faultScope = "remediation"

\* the client alone against endpoints that answer page by page
InitPages ==
    /\ InitCommon
    /\ apiKey = "key"
    /\ \E a \in Pagers, b \in {EmptyPage, Page(401, "json", <<>>, 0)} :
          provider = [audit |-> a, auth |-> Pager(<<b>>, EmptyPage)]
    /\ overlap = FALSE
    /\ faultScope = "none"

Actions == {"lock_user", "unlock_user", "revoke_key", "delete_user"}

\* Ingest calls served one after the other
NextIngest ==
    \/ \E p \in Procs : StartIngest(p)
    \/ \E p \in Procs : FetchAudit(p)
    \/ \E p \in Procs : FetchAuth(p)
    \/ \E p \in Procs : IngestEvent(p)
    \/ Tick

\* Ingest calls that overlap: the three store calls of the loop body interleave
NextOverlap ==
    \/ \E p \in Procs : StartIngest(p)
    \/ \E p \in Procs : FetchAudit(p)
    \/ \E p \in Procs : FetchAuth(p)
    \/ \E p \in Procs : CheckExists(p)
    \/ \E p \in Procs : StoreStep(p)
    \/ \E p \in Procs : DetectStep(p)
    \/ Tick

NextRemediation ==
    \/ \E id \in AlertIDs(alerts) \cup {MissingAlertID}, action \in Actions :
          RemediateAlert(id, action)
    \/ \E action \in Actions \ {"delete_user"} :
          PlainRemediation(action, IF action = "revoke_key" THEN "key_abc123"
                                   ELSE "user@example.com")
    \/ RemMutate
    \/ RemLog
    \/ RemStatus

NextStatus ==
    \E id \in AlertIDs(alerts) \cup {MissingAlertID},
       status \in ValidStatuses \cup {"CLOSED"} : SetStatus(id, status)

\* the pipeline: requests served one at a time, an Ingest call being one step
NextService ==
    \/ \E p \in Procs : Ingest(p)
    \/ TickIdle
    \/ NextRemediation

Next == NextService \/ NextStatus

\* every operation that writes a table: the Ingest loop, and remediation by alert
NextFrame ==
    \/ NextOverlap
    \/ \E id \in AlertIDs(alerts), action \in Actions : RemediateAlert(id, action)
    \/ RemMutate
    \/ RemLog
    \/ RemStatus

\* the steps of Start itself: calling Ingest, taking its result, the select
LoopControl == StartBegins \/ LoopIngest \/ CycleReturns \/ SelectTick \/ SelectDone

\* Start with the Ingest calls it makes, its ticker and its context
NextStart ==
    \/ LoopControl
    \/ LoopStep
    \/ TickerFires
    \/ \E err \in CtxErrors : Cancel(err)

NextFetch ==
    \/ \E endpoint \in {"audit", "auth"}, since \in SinceValues : FetchCall(endpoint, since)
    \/ TickIdle

\* Ingest, remediation of a stored alert and status updates
NextStatusOps ==
    \/ Ingest("loop")
    \/ \E id \in AlertIDs(alerts) : RemediateAlert(id, "revoke_key")
    \/ RemMutate
    \/ RemLog
    \/ RemStatus
    \/ NextStatus

NextPages ==
    \E endpoint \in {"audit", "auth"}, since \in PagedSince : PagedFetch(endpoint, since)

Spec == Init /\ [][Next]_vars

SpecService == InitService /\ [][NextService]_vars

SpecPipeline == InitMock /\ [][NextService]_vars

SpecFrame == InitFrame /\ [][NextFrame]_vars

\* the goroutine running Start takes its own steps whenever it can and the
\* ticker keeps firing; nothing obliges an Ingest call in progress to return
\* (its network and database calls may block) or the context to be cancelled
SpecStart ==
    InitStart /\ [][NextStart]_vars /\ WF_vars(LoopControl) /\ WF_vars(TickerFires)

SpecFetch == InitFetch /\ [][NextFetch]_vars

SpecIngest == InitIngest /\ [][NextIngest]_vars

SpecOverlap == InitOverlap /\ [][NextOverlap]_vars

SpecRules == InitRules /\ [][NextIngest]_vars

SpecPages == InitPages /\ [][NextPages]_vars

SpecRefusal == InitRefusal /\ [][NextService]_vars

\* the operator's status updates on one alert, before and after a remediation
\* of that alert has set it to RESOLVED
SpecStatus == InitService /\ [][NextStatusOps]_vars

(* --------------------------- properties -------------------------------- *)
ProviderIDs(evs) == {e.EventID : e \in evs}

CallsFor(eventID) == {c \in processed : c.EventID = eventID}

\* C1: over Ingest calls that do not overlap, every provider event id has at
\* most one Event in the store and at most one ProcessEvent call, and every
\* ProcessEvent call is for an Event this call stored; an id found in the
\* store (from an earlier call or earlier in the same feed) is skipped.
C1_StoredAndProcessedOnce ==
    /\ \A e1 \in events, e2 \in events : e1.EventID = e2.EventID => e1 = e2
    /\ \A c1 \in processed, c2 \in processed : c1.EventID = c2.EventID => c1 = c2
    /\ \A c \in processed : \E e \in events : e.ID = c.ID /\ e.EventID = c.EventID
    /\ noops = {}

\* a feed repeated an id that was already stored and processed: it was skipped
C1_Witness ==
    \E id \in skipped :
        /\ Cardinality(CallsFor(id)) = 1
        /\ Cardinality({e \in events : e.EventID = id}) = 1

\* C2: when Ingest calls overlap and fetch the same provider event id, the
\* store holds at most one Event for that id, whatever the interleaving of the
\* existence checks and inserts.
C2_OneEventPerProviderID ==
    \A id \in ProviderIDs(events) : Cardinality({e \in events : e.EventID = id}) = 1

\* both calls passed the existence check and the second insert met the conflict
C2_Witness ==
    /\ noops # {}
    /\ \A id \in ProviderIDs(events) : Cardinality({e \in events : e.EventID = id}) <= 1

\* C3: when two overlapping Ingest calls both pass the existence check for the
\* same provider event id, ProcessEvent is invoked for it by at most one of
\* them and no rule stores two alerts for that provider event.
C3_NoDoubleAlert ==
    \A id \in {c.EventID : c \in processed} :
        /\ Cardinality(CallsFor(id)) <= 1
        /\ \A rule \in RuleNames :
              Cardinality({a \in alerts : /\ a.AlertType = rule
                                          /\ \E c \in CallsFor(id) : a.ID \in c.stored}) <= 1

FailedLoginAlerts(call) == {a \in call.returned : a.AlertType = "failed_login_spike"}

\* C4: a ProcessEvent call on an auth.failed event of an actor returns no
\* failed_login_spike alert while fewer than FailedLoginThreshold of the actor's
\* failures are stored inside the window, and the call that finds exactly
\* FailedLoginThreshold returns exactly one, with failed_attempts equal to the
\* threshold and stored; in the synthetic feed the fourth failure (006) gives
\* none and the fifth (007) gives one with failed_attempts = 5.
C4_ThresholdBoundary ==
    /\ \A c \in processed :
          (c.EventType = "auth.failed" /\ c.Actor # "" /\ ~c.queryFailed) =>
              /\ c.inWindow < FailedLoginThreshold => FailedLoginAlerts(c) = {}
              /\ c.inWindow = FailedLoginThreshold =>
                    /\ Cardinality(FailedLoginAlerts(c)) = 1
                    /\ \A a \in FailedLoginAlerts(c) :
                          a.failed_attempts = FailedLoginThreshold
                    /\ Cardinality(c.stored) = 1
    /\ \A c \in CallsFor(MockID(0, 6)) : c.inWindow = 4 /\ c.returned = {}
    /\ \A c \in CallsFor(MockID(0, 7)) :
          /\ c.inWindow = 5
          /\ \E a \in c.returned : a.failed_attempts = 5 /\ c.returned = {a}

\* the fourth failure was processed without an alert and the fifth with one
C4_Witness ==
    /\ \E c \in processed : c.inWindow = FailedLoginThreshold - 1 /\ c.returned = {}
    /\ \E c \in processed :
          /\ c.inWindow = FailedLoginThreshold
          /\ Cardinality(FailedLoginAlerts(c)) = 1

\* the failed_login_spike alerts raised by the first Ingest call
FirstSpikes ==
    {a \in alerts : a.AlertType = "failed_login_spike" /\ a.ID[1][1] = 1}

AttemptsOn(alertID) == {r \in remDone : r.alertID = alertID}

LogsOf(alertID) == {l \in logs : l.AlertID = alertID}

C6_OneLogPerAttempt ==
    \A r \in remDone :
        /\ Cardinality({l \in logs : l.ID = r.n}) = 1
        /\ \A l \in logs : l.ID = r.n => l.Result = ResultOf(r.callOk)

\* C7: a remediation operation returned normally exactly when its provider
\* call and its log write both succeeded; the log write succeeded exactly when
\* the log is stored; and after a successful provider call the mutation is in
\* place when the operation returns, also when it returns the log write's error.
C7_ReturnsNormallyIff ==
    \A r \in remDone :
        /\ r.ret = "ok" <=> (r.callOk /\ r.logOk)
        /\ r.logOk <=> \E l \in logs : l.ID = r.n
        /\ r.callOk => r.effect

\* the provider call succeeded, the log write failed, the error was returned
\* and the mutation stayed
C7_Witness ==
    \E r \in remDone :
        /\ r.form = "alert"
        /\ r.callOk
        /\ ~r.logOk
        /\ r.ret = "error"
        /\ r.effect

\* C8: the status update made on remediation completion never changes the
\* status of an alert that is RESOLVED or FALSE_POSITIVE.
C8_TerminalStatusKept ==
    \A m \in autoMoves :
        m.from \in {"RESOLVED", "FALSE_POSITIVE"} => m.to = m.from

\* C9: every Event id in a stored alert's event references is the internal id
\* of an Event in the store.
C9_EventRefsExist ==
    \A a \in alerts :
        \A i \in 1..Len(a.EventRefs) : \E e \in events : e.ID = a.EventRefs[i]

\* C10: a ProcessEvent call returns at most one alert; a failed_login_spike
\* alert only for an auth.failed event with an actor, a
\* forbidden_sensitive_resource alert only for a forbidden event, an
\* api_key_creation alert only for an apiKey.create event; and for a forbidden
\* event on "secrets/db-password" exactly one alert, CRITICAL and of type
\* forbidden_sensitive_resource.
C10_RuleIsolation ==
    \A c \in processed :
        /\ Cardinality(c.returned) <= 1
        /\ \A a \in c.returned :
              /\ a.AlertType = "failed_login_spike" =>
                    c.EventType = "auth.failed" /\ c.Actor # ""
              /\ a.AlertType = "forbidden_sensitive_resource" => c.EventType = "forbidden"
              /\ a.AlertType = "api_key_creation" => c.EventType = "apiKey.create"
        /\ (c.EventType = "forbidden" /\ c.Resource = S_secrets_db_password) =>
              /\ Cardinality(c.returned) = 1
              /\ \A a \in c.returned :
                    /\ a.AlertType = "forbidden_sensitive_resource"
                    /\ a.Severity = "CRITICAL"

\* the forbidden event on "secrets/db-password" was processed, and each of the
\* three rules has alerted on some event
C10_Witness ==
    /\ \E c \in processed :
          /\ c.EventType = "forbidden"
          /\ c.Resource = S_secrets_db_password
          /\ Cardinality(c.returned) = 1
    /\ \E c \in processed : c.EventType = "apiKey.create" /\ c.returned # {}

\* C11: an Ingest call made after a completed one stores no additional Event
\* and creates no additional Alert.
C11_SecondCallAddsNothing ==
    [][(cycles >= 1 /\ cycles' = cycles + 1) =>
           (events' = events /\ alerts' = alerts)]_vars

\* C12: with no API key configured, two consecutive calls of FetchAuditEvents
\* with the same since value return the same events, whatever the time between
\* the calls.
C12_MockFetchDeterministic ==
    ( /\ apiKey = ""
      /\ Len(fetched) = 2
      /\ fetched[1].endpoint = "audit"
      /\ fetched[2].endpoint = "audit"
      /\ fetched[1].since = fetched[2].since ) =>
        fetched[1].result = fetched[2].result

\* the calls of an Ingest call l, made or returned, that failed, among ops
FailedCalls(l, ops) == {i \in 1..Len(l.log) : l.log[i].op \in ops /\ ~l.log[i].ok}

FetchOps == {"FetchAuditEvents", "FetchAuthenticationEvents"}

StoreOps == {"GetLastEventTimestamp", "EventExists", "StoreEvent", "ProcessEvent"}

\* the Ingest calls that have returned
ReturnedCalls == {p \in Procs : ing[p].pc = "idle" /\ ing[p].ret \in {"ok", "error"}}

\* C13: Ingest returns an error exactly when one of its two fetches failed; a
\* failed watermark read, existence check, StoreEvent or ProcessEvent never
\* makes it return an error.
C13_ErrorIffFetchFailed ==
    \A p \in ReturnedCalls :
        ing[p].ret = "error" <=> FailedCalls(ing[p], FetchOps) # {}

\* a call returned nil although one of its store calls failed
C13_Witness ==
    \E p \in ReturnedCalls :
        /\ ing[p].ret = "ok"
        /\ FailedCalls(ing[p], StoreOps) # {}
        /\ \E i \in 1..Len(ing[p].log) : ing[p].log[i].op = "StoreEvent"

\* the events the provider serves
Served == Range(provider.audit) \cup Range(provider.auth)

\* C14: every event of the source feed is stored in the end: once an Ingest
\* call that follows an earlier one has run to its end with the source serving
\* and every store call working, every served event is stored, also one whose
\* existence check or StoreEvent failed in the earlier cycle.
C14_LaterCycleStoresAll ==
    \A p \in ReturnedCalls :
        ( /\ apiKey # ""
          /\ ing[p].cyc >= 2
          /\ ing[p].ret = "ok"
          /\ FailedCalls(ing[p], FetchOps \cup StoreOps) = {} ) =>
            \A e \in Served : e.ID \in ProviderIDs(events)

\* the StoreEvent calls of Ingest call p that returned nil
StoreCalls(l) == {i \in 1..Len(l.log) : l.log[i].op = "StoreEvent" /\ l.log[i].ok}

\* C15: no step removes or changes a stored Event or RemediationLog, no step
\* removes an Alert, and the only field of an Alert a step changes is its
\* status; a StoreEvent for a provider id that is already stored returns no
\* error and leaves the events table as it is.
C15_RecordsKept ==
    [][ /\ events \subseteq events'
        /\ logs \subseteq logs'
        /\ \A a \in alerts : \E b \in alerts' : b = [a EXCEPT !.Status = b.Status]
        /\ \A p \in Procs :
              ( /\ ing[p].pc = "store"
                /\ EventExists(events, ing[p].ev.EventID)
                /\ ing'[p].pc # "store" ) =>
                  /\ events' = events
                  /\ StoreCalls(ing'[p]) # StoreCalls(ing[p]) ]_vars

\* a second StoreEvent for a stored provider id has returned, an alert's status
\* was changed, and a RemediationLog was written
C15_Witness ==
    /\ noops # {}
    /\ \E a \in alerts : a.Status # "OPEN"
    /\ logs # {}

\* the ProcessEvent calls on a login failure of actor u that found the count in
\* the window at or above the threshold
SpikeCalls(u) ==
    {c \in processed : /\ c.EventType = "auth.failed"
                       /\ c.Actor = u
                       /\ c.inWindow >= FailedLoginThreshold}

SpikeAlerts(u) == {a \in alerts : a.AlertType = "failed_login_spike" /\ a.UserID = u}

\* C16: with every store call working, each auth.failed event of an actor that
\* is processed while the count in the window is at or above the threshold
\* creates one new failed_login_spike alert: the actor's alerts are as many as
\* such events, the threshold-crossing one and the k after it.
C16_OneAlertPerFurtherFailure ==
    faults = 0 =>
        \A u \in {c.Actor : c \in processed} \ {""} :
            /\ Cardinality(SpikeAlerts(u)) = Cardinality(SpikeCalls(u))
            /\ \A c \in SpikeCalls(u) :
                  /\ Cardinality(FailedLoginAlerts(c)) = 1
                  /\ \A a \in FailedLoginAlerts(c) : a.failed_attempts = c.inWindow
                  /\ \E a \in SpikeAlerts(u) : a.ID \in c.stored

\* after the crossing event two further failures of the actor were processed,
\* and the actor has three alerts or more
C16_Witness ==
    \E u \in {c.Actor : c \in processed} :
        /\ \E c \in SpikeCalls(u) : c.inWindow = FailedLoginThreshold
        /\ \E c \in SpikeCalls(u) : c.inWindow = FailedLoginThreshold + 2
        /\ Cardinality(SpikeAlerts(u)) >= 3

\* the calls of Ingest call l on operation op
CallsOf(l, op) == {i \in 1..Len(l.log) : l.log[i].op = op}

\* what Ingest call l has written: the Events it stored, the events it passed
\* to ProcessEvent
WrittenBy(l) ==
    {e.ID : e \in {x \in events : x.ID[1] = l.cyc}} \cup
    {c.ID : c \in {x \in processed : x.ID[1] = l.cyc}}

\* C17: an Ingest call one of whose fetches failed has returned an error at
\* once: it made no existence check, stored no Event and passed no event to
\* ProcessEvent, also when it was the second fetch that failed; and no call
\* calls either fetch more than once.
C17_FetchFailureAborts ==
    \A p \in Procs :
        /\ Cardinality(CallsOf(ing[p], "FetchAuditEvents")) <= 1
        /\ Cardinality(CallsOf(ing[p], "FetchAuthenticationEvents")) <= 1
        /\ FailedCalls(ing[p], FetchOps) # {} =>
              /\ ing[p].pc = "idle"
              /\ ing[p].ret = "error"
              /\ FailedCalls(ing[p], FetchOps) = {Len(ing[p].log)}
              /\ CallsOf(ing[p], "EventExists") = {}
              /\ CallsOf(ing[p], "StoreEvent") = {}
              /\ CallsOf(ing[p], "ProcessEvent") = {}
              /\ WrittenBy(ing[p]) = {}

\* a call whose audit fetch returned events and whose authentication fetch
\* failed has returned
C17_Witness ==
    \E p \in ReturnedCalls :
        /\ FailedCalls(ing[p], {"FetchAuthenticationEvents"}) # {}
        /\ CallsOf(ing[p], "FetchAuditEvents") # {}
        /\ Len(FetchAuditEvents(apiKey, provider, NoTime, now)) > 0
        /\ FailedCalls(ing[p], {"GetLastEventTimestamp"}) = {}
        /\ events = {}

\* the entry of Ingest call l for operation op on the event at position i
EntriesAt(l, op, i) == {k \in CallsOf(l, op) : l.log[k].idx = i}

Succeeded(l, op, i) == \E k \in EntriesAt(l, op, i) : l.log[k].ok

\* C18: in an Ingest call that got past its fetches every fetched event has its
\* existence check, whatever failed on the events before it; an event whose
\* StoreEvent failed is not stored by the call and not passed to ProcessEvent; an
\* event whose ProcessEvent failed remains stored; and every event that is new
\* gets its StoreEvent, every stored one its ProcessEvent.
C18_PerEventIsolation ==
    \A p \in ReturnedCalls :
        LET l == ing[p]
        IN  ing[p].ret = "ok" =>
              \A i \in 1..Len(l.feed) :
                /\ Cardinality(EntriesAt(l, "EventExists", i)) = 1
                /\ Cardinality(EntriesAt(l, "StoreEvent", i)) <= 1
                /\ Cardinality(EntriesAt(l, "ProcessEvent", i)) <= 1
                /\ EntriesAt(l, "ProcessEvent", i) # {} <=> Succeeded(l, "StoreEvent", i)
                /\ EntriesAt(l, "StoreEvent", i) # {} => Succeeded(l, "EventExists", i)
                /\ ~Succeeded(l, "StoreEvent", i) => NewUUID(l.cyc, i) \notin WrittenBy(l)
                /\ EntriesAt(l, "ProcessEvent", i) # {} =>
                      /\ l.feed[i].ID \in ProviderIDs(events)
                      /\ \E c \in processed : c.ID = NewUUID(l.cyc, i)
                /\ ( /\ Succeeded(l, "EventExists", i)
                     /\ EntriesAt(l, "StoreEvent", i) = {} ) =>
                      l.feed[i].ID \in ProviderIDs(events)

\* a call has returned in which StoreEvent failed for one event and a later
\* event was stored and processed
C18_Witness ==
    \E p \in ReturnedCalls :
        \E i \in 1..Len(ing[p].feed), j \in 1..Len(ing[p].feed) :
            /\ i < j
            /\ EntriesAt(ing[p], "StoreEvent", i) # {}
            /\ ~Succeeded(ing[p], "StoreEvent", i)
            /\ Succeeded(ing[p], "StoreEvent", j)
            /\ Succeeded(ing[p], "ProcessEvent", j)

\* the calls an Ingest call makes before its loop, and inside it, in the order
\* the code makes them
Rank(op) ==
    CASE op = "GetLastEventTimestamp" -> 1
      [] op = "FetchAuditEvents" -> 2
      [] op = "FetchAuthenticationEvents" -> 3
      [] op = "EventExists" -> 4
      [] op = "StoreEvent" -> 5
      [] op = "ProcessEvent" -> 6

\* entry a of a call's history precedes entry b in the order of the code:
\* an earlier position of the feed, or the same position and an earlier call
InOrder(a, b) == a.idx < b.idx \/ (a.idx = b.idx /\ Rank(a.op) < Rank(b.op))

\* C19: within an Ingest call the fetched events are handled one at a time in
\* feed order, audit events before authentication events, each by existence
\* check, then StoreEvent, then ProcessEvent; StoreEvent is called only after
\* the event's own check found it absent, ProcessEvent only after its StoreEvent
\* returned, and no call for a later event precedes a call for an earlier one.
C19_OneAtATimeInOrder ==
    \A p \in Procs :
        LET l == ing[p]
        IN  /\ \A a \in 1..Len(l.log), b \in 1..Len(l.log) :
                  a < b => InOrder(l.log[a], l.log[b])
            /\ \A k \in 1..Len(l.log) :
                  l.log[k].idx > 0 =>
                      /\ l.log[k].idx <= Len(l.feed)
                      /\ l.log[k].id = l.feed[l.log[k].idx].ID
            /\ \A i \in 1..Len(l.feed), j \in 1..Len(l.feed) :
                  (i < j /\ l.feed[j].Source = "audit") => l.feed[i].Source = "audit"
            /\ \A i \in 1..Len(l.feed) :
                  /\ EntriesAt(l, "StoreEvent", i) # {} => Succeeded(l, "EventExists", i)
                  /\ EntriesAt(l, "ProcessEvent", i) # {} => Succeeded(l, "StoreEvent", i)
                  /\ NewUUID(l.cyc, i) \in WrittenBy(l) => Succeeded(l, "StoreEvent", i)
            /\ l.pc = "check" => EntriesAt(l, "EventExists", l.idx) = {}
            /\ l.pc = "store" =>
                  Succeeded(l, "EventExists", l.idx) /\ EntriesAt(l, "StoreEvent", l.idx) = {}
            /\ l.pc = "process" =>
                  Succeeded(l, "StoreEvent", l.idx) /\ EntriesAt(l, "ProcessEvent", l.idx) = {}

\* a call is between the StoreEvent and the ProcessEvent of its second event,
\* an authentication event, having finished the audit event before it
C19_Witness ==
    \E p \in Procs :
        /\ ing[p].pc = "process"
        /\ ing[p].idx = 2
        /\ ing[p].feed[1].Source = "audit"
        /\ ing[p].feed[2].Source = "authentication"
        /\ Succeeded(ing[p], "ProcessEvent", 1)

\* C20: Start calls Ingest at once and then once per tick it receives; a cycle
\* that fails does not make Start return, and while the context is not cancelled
\* a later cycle is started after it; Start returns only with the context's
\* error, after the context was cancelled.
C20_LoopSurvivesFailures ==
    /\ [](start.pc # "init" => start.runs = 1 + start.ticks)
    /\ [](start.pc \in {"select", "returned"} => cycles = start.runs)
    /\ [](start.pc = "returned" => ctxErr \in CtxErrors /\ start.ret = ctxErr)
    /\ \A n \in 1..(MaxCycles - 1) :
          (start.pc = "select" /\ start.runs = n /\ ing["loop"].ret = "error")
              ~> (start.runs > n \/ ctxErr # "")

\* the first cycle failed, a later cycle was started by a tick, and Start has
\* returned after the context was cancelled
C20_Witness ==
    /\ start.failed >= 1
    /\ start.runs >= 2
    /\ start.pc = "returned"
    /\ start.ret = "context canceled"

\* C21: once the context has been cancelled Start begins no new Ingest cycle,
\* also when a tick is waiting at the moment of cancellation.
C21_NoCycleAfterCancel ==
    [][ctxErr # "" => start'.runs = start.runs]_vars

\* C22: a cycle of the loop that is in flight when the context is cancelled
\* runs as it would without the cancellation: with no failure of the source or
\* the store, a cycle that has returned nil has stored every event it fetched.
C22_CycleUnaffectedByCancel ==
    ( /\ start.pc \in {"select", "returned"}
      /\ faults = 0
      /\ ing["loop"].ret = "ok" ) =>
        \A i \in 1..Len(ing["loop"].feed) :
            ing["loop"].feed[i].ID \in ProviderIDs(events)

\* the calls an Ingest call has made so far are kept in order while it runs
IsPrefix(a, b) == Len(a) <= Len(b) /\ SubSeq(b, 1, Len(a)) = a

\* C23: the loop never overlaps with itself: an Ingest call of the loop is in
\* progress only while Start waits for it, Start calls Ingest again only after
\* the call before has returned, and the calls a cycle makes are made one after
\* the other.
C23_LoopNeverOverlapsItself ==
    /\ [](ing["loop"].pc # "idle" =>
              start.pc = "ingest" /\ ing["loop"].cyc = start.runs)
    /\ [][start'.runs # start.runs =>
              /\ ing["loop"].pc = "idle"
              /\ start.runs > 0 =>
                    /\ ing["loop"].cyc = start.runs
                    /\ ing["loop"].ret \in {"ok", "error"}]_vars
    /\ [][(ing["loop"].pc # "idle" /\ ing'["loop"].cyc = ing["loop"].cyc) =>
              /\ IsPrefix(ing["loop"].log, ing'["loop"].log)
              /\ \A k \in 1..Len(ing'["loop"].log) - 1 :
                    InOrder(ing'["loop"].log[k], ing'["loop"].log[k + 1])]_vars

\* the second cycle of the loop is at its third event, a tick is waiting
C23_Witness ==
    /\ start.runs = 2
    /\ ing["loop"].pc = "check"
    /\ ing["loop"].idx = 3
    /\ ticker = 1

\* C24: a ProcessEvent call evaluates every rule once, in registration order,
\* also after a rule returned an error; the alerts a rule returned are stored
\* each on its own, one that could not be stored keeping neither the others
\* from being stored nor the later rules from being evaluated; and the call
\* returns no error.
C24_DetectionBestEffort ==
    \A c \in processed :
        /\ Len(c.evaluated) = Len(rules)
        /\ \A i \in 1..Len(rules) :
              /\ c.evaluated[i].rule = rules[i]
              /\ c.evaluated[i].err <=>
                    (c.queryFailed /\ rules[i] = "failed_login_spike")
              /\ c.evaluated[i].err => c.evaluated[i].stored = {}
              /\ c.evaluated[i].stored \subseteq AlertIDs(alerts)
              /\ c.evaluated[i].failed \cap AlertIDs(alerts) = {}
              /\ Cardinality(c.evaluated[i].stored \cup c.evaluated[i].failed) =
                    Cardinality({a \in c.returned : a.AlertType = rules[i]})
        /\ c.stored = UNION {c.evaluated[i].stored : i \in 1..Len(rules)}
        /\ c.err = "nil"

\* the first rule returned an error in one call and the two rules after it
\* were evaluated
C24_Witness ==
    \E c \in processed :
        /\ c.evaluated[1].err
        /\ Len(c.evaluated) = 3
        /\ ~c.evaluated[2].err
        /\ ~c.evaluated[3].err

\* C25: every ProcessEvent call evaluates exactly failed_login_spike,
\* forbidden_sensitive_resource and api_key_creation, in that order, whenever it
\* is made; no extension-point rule is evaluated and no alert of an
\* extension-point type is stored.
C25_RegistryFixed ==
    /\ \A c \in processed :
          /\ [i \in 1..Len(c.evaluated) |-> c.evaluated[i].rule] =
                <<"failed_login_spike", "forbidden_sensitive_resource",
                  "api_key_creation">>
          /\ \A a \in c.returned : a.AlertType \notin ExtensionRules
    /\ \A a \in alerts :
          /\ a.AlertType \notin ExtensionRules
          /\ a.AlertType \in {"failed_login_spike", "forbidden_sensitive_resource",
                              "api_key_creation"}

\* two Ingest calls have run and each of the three registered rules has an
\* alert in the store
C25_Witness ==
    /\ cycles = 2
    /\ \E c1 \in processed, c2 \in processed : c1.ID[1] = 1 /\ c2.ID[1] = 2
    /\ {a.AlertType : a \in alerts} =
          {"failed_login_spike", "forbidden_sensitive_resource", "api_key_creation"}

KeyCreationCalls == {c \in processed : c.EventType = "apiKey.create"}

KeyCreationAlerts == {a \in alerts : a.AlertType = "api_key_creation"}

\* C26: every ProcessEvent call on an apiKey.create event returns exactly one
\* api_key_creation alert, HIGH and OPEN, for the event's actor, and a call on
\* an event of another type returns none; with the store working each such call
\* leaves a new alert that references its event, whatever alerts exist already.
C26_KeyCreationAlwaysAlerts ==
    /\ \A c \in processed :
          LET own == {a \in c.returned : a.AlertType = "api_key_creation"}
          IN  IF c.EventType = "apiKey.create"
              THEN /\ Cardinality(own) = 1
                   /\ \A a \in own : /\ a.Severity = "HIGH"
                                     /\ a.Status = "OPEN"
                                     /\ a.UserID = c.Actor
              ELSE own = {}
    /\ faults = 0 =>
          /\ Cardinality(KeyCreationAlerts) = Cardinality(KeyCreationCalls)
          /\ \A c \in KeyCreationCalls :
                \E a \in KeyCreationAlerts :
                    /\ a.EventRefs = <<c.ID>>
                    /\ a.ID \in c.stored
                    /\ a.Severity = "HIGH"
                    /\ a.Status = "OPEN"

\* a second key creation by the same actor was processed when the alert for
\* the first one existed, and there are two alerts
C26_Witness ==
    /\ \E c1 \in KeyCreationCalls, c2 \in KeyCreationCalls :
          c1.ID # c2.ID /\ c1.Actor = c2.Actor
    /\ Cardinality(KeyCreationAlerts) = 2
    /\ \E c \in processed : c.EventType # "apiKey.create"

\* the Event a ProcessEvent call was made with
EventOf(c) == CHOOSE e \in events : e.ID = c.ID

\* the categories the rule looks for, in lower case
SensitiveWords == {S_iam, S_secrets, S_kms, S_secret}

\* the categories an event's resource field or payload resource contains
MatchedCategories(e) ==
    {w \in SensitiveWords :
        \/ StringsContains(ToLower(e.Resource), w)
        \/ /\ "resource" \in DOMAIN e.Raw
           /\ StringsContains(ToLower(e.Raw.resource), w)}

\* the forbidden_sensitive_resource alerts a ProcessEvent call returned, and
\* those of them in the alerts table
ForbiddenReturned(c) ==
    {a \in c.returned : a.AlertType = "forbidden_sensitive_resource"}

ForbiddenAlerts(c) ==
    {a \in alerts : a.ID \in c.stored /\ a.AlertType = "forbidden_sensitive_resource"}

\* C27: a ProcessEvent call returns exactly one forbidden_sensitive_resource
\* alert when the event's type is forbidden and its resource field or the
\* resource entry of its payload contains, letter case ignored, one of iam,
\* secrets, kms, secret, and none otherwise; the alert is CRITICAL, its
\* evidence names a category that matched and holds the event's payload.
C27_ForbiddenSensitiveIff ==
    \A c \in processed :
        LET e == EventOf(c)
        IN  IF e.EventType = "forbidden" /\ MatchedCategories(e) # {}
            THEN /\ Cardinality(ForbiddenReturned(c)) = 1
                 /\ Cardinality(ForbiddenAlerts(c)) = 1
                 /\ \A a \in ForbiddenAlerts(c) :
                       /\ a.Severity = "CRITICAL"
                       /\ a.EventRefs = <<e.ID>>
                       /\ a.Evidence.resource_type \in MatchedCategories(e)
                       /\ a.Evidence.raw_event = e.Raw
            ELSE ForbiddenReturned(c) = {} /\ ForbiddenAlerts(c) = {}

\* a forbidden event whose resource field names nothing sensitive was flagged
\* on the resource entry of its payload, written with a capital letter
C27_Witness ==
    \E c \in processed :
        /\ EventOf(c).EventType = "forbidden"
        /\ EventOf(c).Resource = S_bucket
        /\ "resource" \in DOMAIN EventOf(c).Raw
        /\ EventOf(c).Raw.resource = S_Secret_store
        /\ \E a \in ForbiddenAlerts(c) : a.Evidence.resource_type = S_secret

\* the ProcessEvent calls in which the failed-login rule ran its query
CountingCalls ==
    {c \in processed : c.EventType = "auth.failed" /\ c.Actor # "" /\ ~c.queryFailed}

\* C28: when the failed-login rule evaluates an auth.failed event of an
\* actor, the event is stored and the count the rule compares with the
\* threshold includes it, so the count is at least 1, whatever timestamp the
\* provider gave the event.
C28_CountIncludesTrigger ==
    \A c \in CountingCalls :
        /\ EventOf(c) \in events
        /\ c.inWindow >= 1

\* the events a failed_login_spike alert counted: the rows of the rule's query
CountedEvents(a) == {e \in events : e.ID \in Range(a.EventRefs)}

Earliest(evs) == CHOOSE t \in {e.Timestamp : e \in evs} :
                     \A e \in evs : t <= e.Timestamp

\* C29: the evidence of a failed_login_spike alert holds the count of the
\* counted events, the window and the threshold, every source IP of the
\* counted events exactly once, and as first_attempt the timestamp of the
\* earliest counted event.
C29_SpikeEvidence ==
    \A a \in alerts :
        a.AlertType = "failed_login_spike" =>
            /\ a.Evidence.failed_attempts = Cardinality(CountedEvents(a))
            /\ a.Evidence.window_minutes = FailedLoginWindowMin
            /\ a.Evidence.threshold = FailedLoginThreshold
            /\ Range(a.Evidence.ip_addresses) = {e.IP : e \in CountedEvents(a)}
            /\ Len(a.Evidence.ip_addresses) =
                  Cardinality(Range(a.Evidence.ip_addresses))
            /\ a.Evidence.first_attempt = Earliest(CountedEvents(a))

\* since is the newest timestamp of the stored events, nil when none is stored
IsWatermarkOf(since, evs) ==
    IF evs = {} THEN ~since.valid
    ELSE /\ since.valid
         /\ \E e \in evs : e.Timestamp = since.t
         /\ \A e \in evs : e.Timestamp <= since.t

\* C30: the watermark of a cycle is what its read of the store returned, the
\* newest timestamp of the Events stored at that moment, or nil when none is
\* stored or the read failed; the audit fetch and the authentication fetch of
\* the cycle are both made with that value; and the newest stored timestamp,
\* hence the watermark a later successful read returns, never decreases.
C30_WatermarkRecomputed ==
    [][/\ \A p \in Procs :
            /\ (ing[p].pc = "idle" /\ ing'[p].pc = "fetchAudit") =>
                  IF ing'[p].log[1].ok
                  THEN IsWatermarkOf(ing'[p].since, events)
                  ELSE ~ing'[p].since.valid
            /\ (ing[p].pc = "fetchAudit" /\ ing'[p].pc = "fetchAuth") =>
                  /\ ing'[p].since = ing[p].since
                  /\ ing'[p].audit =
                        FetchAuditEvents(apiKey, provider, ing[p].since, now)
            /\ (ing[p].pc = "fetchAuth" /\ ing'[p].pc = "check") =>
                  ing'[p].feed =
                      ing[p].audit \o
                      FetchAuthenticationEvents(apiKey, provider, ing[p].since, now)
       /\ events # {} =>
            /\ events' # {}
            /\ \A e \in events : \E f \in events' : f.Timestamp >= e.Timestamp
      ]_vars

\* a second cycle read a watermark from the events the first one stored, made
\* both fetches with it and got events newer than it
C30_Witness ==
    \E p \in Procs :
        /\ ing[p].cyc = 2
        /\ ing[p].pc = "check"
        /\ ing[p].log[1].ok
        /\ IsWatermarkOf(ing[p].since, events)
        /\ \E e1 \in events, e2 \in events : e1.Timestamp < e2.Timestamp
        /\ \A i \in 1..Len(ing[p].feed) : ing[p].feed[i].Timestamp > ing[p].since.t

\* what the source of a fetch call holds before any filter
Unfiltered(c) ==
    IF apiKey = "" THEN mockAll(c.at, IF c.endpoint = "audit" THEN "audit" ELSE "auth")
    ELSE IF c.endpoint = "audit" THEN provider.audit ELSE provider.auth

\* C31: every event a fetch call returned when called with a since has a
\* timestamp strictly after since, from the provider (which sends its whole
\* list) and from the synthetic source alike; a call without since returned
\* as many events as the source holds.
C31_ReturnedNewerThanSince ==
    \A i \in 1..Len(fetched) :
        LET c == fetched[i]
        IN  IF c.since.valid
            THEN \A j \in 1..Len(c.result) : c.result[j].Timestamp > c.since.t
            ELSE Len(c.result) = Len(Unfiltered(c))

\* a call on the provider with since equal to the timestamp of a served
\* event returned the newer events and not that one
C31_Witness ==
    /\ apiKey = "key"
    /\ \E i \in 1..Len(fetched) :
          LET c == fetched[i]
          IN  /\ c.since.valid
              /\ \E j \in 1..Len(Unfiltered(c)) : Unfiltered(c)[j].Timestamp = c.since.t
              /\ Len(c.result) > 0
              /\ Len(c.result) < Len(Unfiltered(c))

\* the page the endpoint of a fetch call answered to page number i with
Answer(c, i) == PageOf(provider[c.endpoint], i)

\* the records the provider sent in a page, with or without id
Records(resp) == Len(resp.items) + resp.noID

\* the ids of the records with id on the pages a call asked for, newer than since
IdsOnPages(c) ==
    UNION { {Answer(c, i).items[j].ID :
                j \in {m \in 1..Len(Answer(c, i).items) :
                          c.since.valid => Answer(c, i).items[m].Timestamp > c.since.t}} :
            i \in 1..Len(c.requested) }

\* C32: a fetch call asks for pages 1, 2, ... in order and for no more than
\* 500; when it returns events, every page before the last one asked for
\* held 100 records and the last one held fewer than 100, records without id
\* counted, or was page 500; the records without id are dropped and the
\* records with id of every page asked for are returned.
C32_PagesInOrderUntilShort ==
    \A k \in 1..Len(fetched) :
        LET c == fetched[k]
            n == Len(c.requested)
        IN  /\ n >= 1
            /\ n <= 500
            /\ \A i \in 1..n : c.requested[i] = i
            /\ \A i \in 1..(n - 1) : Records(Answer(c, i)) >= 100
            /\ ~c.err =>
                  /\ n = 500 \/ Records(Answer(c, n)) < 100
                  /\ {c.result[j].ID : j \in 1..Len(c.result)} = IdsOnPages(c)

\* a call went past a full page made of one event and 99 records without id,
\* stopped at the next page, which held 99 records, and returned the events of
\* both
C32_Witness ==
    \E k \in 1..Len(fetched) :
        LET c == fetched[k]
        IN  /\ ~c.err
            /\ Len(c.requested) = 2
            /\ Answer(c, 1).noID = 99
            /\ Records(Answer(c, 2)) = 99
            /\ Len(c.result) = 2

\* an endpoint that never sends a short page was asked for 500 pages
C32_PageLimit ==
    \E k \in 1..Len(fetched) : ~fetched[k].err /\ Len(fetched[k].requested) = 500

\* a page request that failed: no response, 401, 403 or another status from
\* 300 up, or a body that holds no list
Failed(resp) == resp.status = 0 \/ resp.status >= 300 \/ resp.body # "json"

\* C33: a fetch call returns an error exactly when one of the pages it asked
\* for failed, and then it returns no event at all, whatever the pages before
\* held; a call that returned events had every page it asked for succeed.
C33_AllOrNothing ==
    \A k \in 1..Len(fetched) :
        LET c == fetched[k]
        IN  /\ c.err <=> \E i \in 1..Len(c.requested) : Failed(Answer(c, i))
            /\ c.err => c.result = <<>>
            /\ Len(c.result) > 0 =>
                  \A i \in 1..Len(c.requested) : Answer(c, i).status = 200

\* the first page held an event newer than since, the second page failed, and
\* the call returned an error and nothing
C33_Witness ==
    \E k \in 1..Len(fetched) :
        LET c == fetched[k]
        IN  /\ c.err
            /\ Len(c.requested) = 2
            /\ Len(Answer(c, 1).items) = 1
            /\ ~c.since.valid
            /\ Answer(c, 2).status = 500
            /\ c.result = <<>>

\* the four statuses a status-update request may name
FourStatuses == {"OPEN", "INVESTIGATING", "RESOLVED", "FALSE_POSITIVE"}

PlainSucceeded == {r \in remDone : r.form = "plain" /\ r.callOk}

\* C35: a remediation operation called without an alert id whose provider
\* call succeeded has stored exactly one RemediationLog, with result
\* "success", and has returned normally.
C35_PlainSuccessLogged ==
    \A r \in PlainSucceeded :
        /\ r.ret = "ok"
        /\ Cardinality({l \in logs : l.ID = r.n /\ l.Result = "success"}) = 1

\* the ids of the stored alerts whose status differs between two alert tables
StatusChanged(als, als2) ==
    {a.ID : a \in {x \in als : \E y \in als2 : y.ID = x.ID /\ y.Status # x.Status}}

\* C36: while requests are remediation requests, a step changes the status of
\* a stored alert only as the last step of a remediation request on that
\* alert whose operation returned without error, the provider call having
\* succeeded and the success RemediationLog of that alert being stored, and
\* it sets RESOLVED; a request whose provider call or log write failed ends
\* with every status as it was.
C36_StatusSetOnlyAfterSuccess ==
    [][/\ StatusChanged(alerts, alerts') # {} =>
            /\ rem.pc = "status"
            /\ StatusChanged(alerts, alerts') = {rem.alertID}
            /\ \A b \in alerts' : b.ID = rem.alertID => b.Status = "RESOLVED"
            /\ \E r \in remDone :
                  r.n = rem.n /\ r.callOk /\ r.logOk /\ r.ret = "ok"
            /\ \E l \in logs :
                  l.ID = rem.n /\ l.AlertID = rem.alertID /\ l.Result = "success"
       /\ (rem.pc = "log" /\ \E r \in remDone' : r.n = rem.n /\ r.ret # "ok") =>
            rem'.pc = "idle" /\ alerts' = alerts
      ]_vars

\* a revoke_key request on the alert of an API key creation went through: the
\* key is revoked, the success log is stored and the alert is RESOLVED
C36_Witness ==
    \E m \in autoMoves :
        /\ m.from = "OPEN"
        /\ \E r \in remDone : r.alertID = m.alertID /\ r.action = "revoke_key" /\ r.ret = "ok"
        /\ \E l \in logs : l.AlertID = m.alertID /\ l.Result = "success"
        /\ \E a \in alerts : a.ID = m.alertID /\ a.Status = "RESOLVED"
        /\ revoked # {}

\* C37: a remediation request answered with a refusal (alert not found,
\* unknown action, no user id for lock_user or unlock_user, no key id for
\* revoke_key) makes no provider call, stores no RemediationLog and changes no
\* alert; and a request goes on to the remediation service only for a stored
\* alert, a known action and a subject that is not empty.
C37_RefusalHasNoEffect ==
    [][/\ refused' # refused =>
            /\ refused' # ""
            /\ alerts' = alerts
            /\ logs' = logs
            /\ locked' = locked
            /\ revoked' = revoked
            /\ rem' = rem
            /\ remDone' = remDone
       /\ (rem.pc = "idle" /\ rem'.pc = "mutate" /\ rem'.form = "alert") =>
            /\ rem'.alertID \in AlertIDs(alerts)
            /\ rem'.action \in {"lock_user", "unlock_user", "revoke_key"}
            /\ \A a \in alerts :
                  a.ID = rem'.alertID =>
                      /\ rem'.action \in {"lock_user", "unlock_user"} => a.UserID # ""
                      /\ rem'.action = "revoke_key" =>
                            "key_id" \in DOMAIN a.Evidence /\ a.Evidence.key_id # ""
      ]_vars

\* a lock or unlock request on the alert without user id was refused and
\* nothing has been called, logged or changed
C37_Witness ==
    /\ refused = "Alert has no user ID"
    /\ \E a \in alerts : a.UserID = "" /\ a.Status = "OPEN"
    /\ logs = {}
    /\ locked = {}
    /\ revoked = {}
    /\ remDone = {}
    /\ \A a \in alerts : a.Status = "OPEN"

\* C38: the status of every stored alert is OPEN, INVESTIGATING, RESOLVED or
\* FALSE_POSITIVE in every state, and an alert is OPEN in the state in which
\* it first appears in the alerts table.
C38_StatusDomain ==
    /\ [](\A a \in alerts : a.Status \in FourStatuses)
    /\ [][\A b \in alerts' :
             b.ID \notin AlertIDs(alerts) => b.Status = "OPEN"]_vars

\* an alert stored as OPEN has been set to INVESTIGATING by a status update
C38_Witness ==
    /\ statusReq.status = "INVESTIGATING"
    /\ \E a \in alerts : a.ID = statusReq.id /\ a.Status = "INVESTIGATING"
    /\ autoMoves = {}

====
